---- MODULE Spec2Model ----
(***************************************************************************)
(* XOOK: a versioned, authenticated key-value store on a sparse radix-16   *)
(* Merkle trie.  The module models the key path encoding, the sparse child *)
(* map, the node model with its canonical and framed encodings, the        *)
(* version-indexed node store, the LRU node cache with its speculative     *)
(* overlay, the batch-update engine and the accumulating adapter.          *)
(*                                                                         *)
(* Hashes are byte strings of HashLen bytes (64 in the program).  Every    *)
(* byte string is a sequence of numbers 0..255.                            *)
(***************************************************************************)
EXTENDS Integers, Sequences, FiniteSets, TLC

(***************************************************************************)
(* Bounds of the model.                                                    *)
(***************************************************************************)
\* Width of a hash in bytes (the program's Hash has 64).
HashLen == 2
\* Number of distinct raw account keys the environment uses.
NumKeys == 3
\* Number of distinct values the environment uses.
NumVals == 2
\* Largest version the environment writes.
MaxVersion == 2
\* Largest number of entries of one batch.
MaxBatch == 2
\* Capacity of the adapter's node cache (100000 in the program).
AdapterCacheCapacity == 3
MaxCapacity == 2
NumCacheKeys == 3
MaxCacheOps == 4
MaxSetChild == 2
MaxFrameLen == 5
MaxSerdeOps == 1
MaxPathBytes == 2
MaxPathNibbles == 4
MaxPathOps == 3
MaxLegacyKeyLen == 3
MaxLegacyOps == 2
MaxNodeOps == 4
MaxOverlayOps == 4
NumThreads == 2
MaxThreadCalls == 4
\* Largest number of operations of one behaviour.
MaxOps == 2

(***************************************************************************)
(* Optional values: std::optional<T>.                                      *)
(***************************************************************************)
None == <<>>

Some(x) == <<x>>

IsSome(o) == Len(o) = 1

Val(o) == o[1]

(***************************************************************************)
(* Bytes and little-endian integers.                                       *)
(***************************************************************************)
Byte == 0..255

RECURSIVE LE(_, _)
\* n little-endian bytes of v: byte i is (v >> (8*i)) & 0xFF.
LE(v, n) ==
    IF n = 0 THEN <<>> ELSE <<v % 256>> \o LE(v \div 256, n - 1)

RECURSIVE FromLE(_)
\* The number whose little-endian bytes are b: the sum of b[i] << (8*i).
FromLE(b) ==
    IF Len(b) = 0 THEN 0 ELSE b[1] + 256 * FromLE(Tail(b))

\* Hash::fill(x): a hash whose bytes are all x.
Fill(x) == [i \in 1..HashLen |-> x]

\* The all-zero hash: the root hash of the empty tree.
ZeroHash == Fill(0)

(***************************************************************************)
(* hash::blake3.  The primitive lives outside the modelled sources; it is  *)
(* modelled as a digest of HashLen bytes computed from every input byte.   *)
(***************************************************************************)
\* The digest is a polynomial in the input bytes modulo DigestMod, a prime
\* below 2^15, seeded so that the empty input does not digest to zero.
DigestMod == 32749

RECURSIVE PowMod(_, _)
\* x^k modulo DigestMod.
PowMod(x, k) ==
    IF k = 0 THEN 1
    ELSE LET h == PowMod(x, k \div 2)
             s == (h * h) % DigestMod
         IN  IF k % 2 = 1 THEN (s * x) % DigestMod ELSE s

\* The powers of 31 modulo DigestMod, for the exponents below 256.
Pow31 == [k \in 0..255 |-> PowMod(31, k)]

Pow31Mod(k) == IF k < 256 THEN Pow31[k] ELSE PowMod(31, k)

RECURSIVE Digest(_, _, _)
\* The sum over i in lo..hi of (b[i] + 1) * 31^(hi - i), modulo DigestMod.
Digest(b, lo, hi) ==
    IF lo > hi THEN 0
    ELSE IF lo = hi THEN b[lo] + 1
    ELSE IF lo + 1 = hi THEN (b[lo] + 1) * 31 + b[hi] + 1
    ELSE IF lo + 2 = hi
    THEN ((b[lo] + 1) * 961 + (b[lo + 1] + 1) * 31 + b[hi] + 1) % DigestMod
    ELSE IF lo + 3 = hi
    THEN ((b[lo] + 1) * 29791 + (b[lo + 1] + 1) * 961
          + (b[lo + 2] + 1) * 31 + b[hi] + 1) % DigestMod
    ELSE LET mid == lo + 4 * (((hi - lo + 4) \div 4) \div 2) - 1
         IN  (Digest(b, lo, mid) * Pow31Mod(hi - mid)
              + Digest(b, mid + 1, hi)) % DigestMod

Blake3(b) ==
    LE((7 * Pow31Mod(Len(b)) + Digest(b, 1, Len(b))) % DigestMod, HashLen)

(***************************************************************************)
(* NibblePath: nibbles packed two per byte, high nibble first.             *)
(***************************************************************************)
NibblePathEmpty == [bytes |-> <<>>, num_nibbles |-> 0]

from_binary(key) == [bytes |-> key, num_nibbles |-> Len(key) * 2]

from_bytes(bytes, num_nibbles) ==
    LET expected_size == (num_nibbles + 1) \div 2
        kept == IF Len(bytes) > expected_size
                THEN SubSeq(bytes, 1, expected_size) ELSE bytes
        n == Len(kept)
        padded == IF num_nibbles % 2 # 0 /\ n > 0
                  THEN [kept EXCEPT ![n] = (kept[n] \div 16) * 16]
                  ELSE kept
    IN  [bytes |-> padded, num_nibbles |-> num_nibbles]

\* get_nibble(index) for index < num_nibbles (the caller checks the range).
get_nibble(p, index) ==
    LET byte == p.bytes[(index \div 2) + 1]
    IN  IF index % 2 = 0 THEN byte \div 16 ELSE byte % 16

RECURSIVE BitOr(_, _)
\* a | b on naturals.
BitOr(a, b) ==
    IF a = 0 THEN b
    ELSE IF b = 0 THEN a
    ELSE (IF a % 2 = 1 \/ b % 2 = 1 THEN 1 ELSE 0)
         + 2 * BitOr(a \div 2, b \div 2)

\* push that forgets to pack a nibble at an odd position into the last
\* byte.
PushDropsOddNibble(p, nibble) ==
    IF p.num_nibbles % 2 = 0
    THEN [bytes |-> Append(p.bytes, nibble * 16),
          num_nibbles |-> p.num_nibbles + 1]
    ELSE [bytes |-> p.bytes, num_nibbles |-> p.num_nibbles + 1]

\* push(nibble) for nibble <= 15 (a larger nibble is rejected before).
push(p, nibble) ==
    IF p.num_nibbles % 2 = 0
    THEN [bytes |-> Append(p.bytes, nibble * 16),
          num_nibbles |-> p.num_nibbles + 1]
    ELSE LET n == Len(p.bytes)
         IN  [bytes |-> [p.bytes EXCEPT ![n] = BitOr(p.bytes[n], nibble % 16)],
              num_nibbles |-> p.num_nibbles + 1]

\* A pop that keeps the bits of the low nibble it removes.
PopKeepsLowNibble(p) ==
    IF p.num_nibbles = 0 THEN p
    ELSE IF p.num_nibbles % 2 = 0
         THEN [bytes |-> p.bytes, num_nibbles |-> p.num_nibbles - 1]
         ELSE [bytes |-> SubSeq(p.bytes, 1, Len(p.bytes) - 1),
               num_nibbles |-> p.num_nibbles - 1]

pop(p) ==
    IF p.num_nibbles = 0 THEN p
    ELSE IF p.num_nibbles % 2 = 0
         THEN LET n == Len(p.bytes)
              IN  [bytes |-> [p.bytes EXCEPT ![n] = (p.bytes[n] \div 16) * 16],
                   num_nibbles |-> p.num_nibbles - 1]
         ELSE [bytes |-> SubSeq(p.bytes, 1, Len(p.bytes) - 1),
               num_nibbles |-> p.num_nibbles - 1]

RECURSIVE BytesCmp(_, _, _)
\* std::vector<uint8_t> operator<=>: lexicographic, a proper prefix first.
\* -1, 0 or 1.
BytesCmp(a, b, i) ==
    IF i > Len(a) /\ i > Len(b) THEN 0
    ELSE IF i > Len(a) THEN -1
    ELSE IF i > Len(b) THEN 1
    ELSE IF a[i] < b[i] THEN -1
    ELSE IF a[i] > b[i] THEN 1
    ELSE BytesCmp(a, b, i + 1)

\* A comparison of the lengths alone.
NibblePathCmpLengthOnly(p, q) ==
    IF p.num_nibbles < q.num_nibbles THEN -1
    ELSE IF p.num_nibbles > q.num_nibbles THEN 1
    ELSE 0

\* NibblePath operator<=>: length first, then the packed bytes.
NibblePathCmp(p, q) ==
    IF p.num_nibbles < q.num_nibbles THEN -1
    ELSE IF p.num_nibbles > q.num_nibbles THEN 1
    ELSE BytesCmp(p.bytes, q.bytes, 1)

(***************************************************************************)
(* SparseBitmap: a 16-bit presence mask.                                   *)
(***************************************************************************)
RECURSIVE popcount(_)
popcount(m) == IF m = 0 THEN 0 ELSE (m % 2) + popcount(m \div 2)

\* exists(nibble): (mask_ >> nibble) & 1.
exists(mask, nibble) == (mask \div (2 ^ nibble)) % 2 = 1

\* An index that counts the children above the nibble.
GetIndexFromTop(mask, nibble) == popcount(mask \div (2 ^ (nibble + 1)))

\* get_index(nibble): popcount(mask_ & ((1 << nibble) - 1)), 0-based.
get_index(mask, nibble) == popcount(mask % (2 ^ nibble))

\* set(nibble): mask_ |= (1 << nibble).
set(mask, nibble) == IF exists(mask, nibble) THEN mask ELSE mask + 2 ^ nibble

total_children(mask) == popcount(mask)

(***************************************************************************)
(* Nodes.  A Node is the variant {InternalNode, LeafNode}; both are        *)
(* records of the same shape, told apart by kind.                          *)
(***************************************************************************)
XOOK_INTERNAL_NODE_DOMAIN ==
    <<71, 76, 79, 70, 73, 67, 65, 95, 73, 110, 116, 101, 114, 110, 97, 108,
      78, 111, 100, 101, 95, 86, 50, 95, 80, 81>>

XOOK_LEAF_NODE_DOMAIN ==
    <<71, 76, 79, 70, 73, 67, 65, 95, 76, 101, 97, 102, 78, 111, 100, 101,
      95, 86, 50, 95, 80, 81>>

\* A descriptor that carries the hash without the origin version.
ChildInfoNoVersion(hash, version) == [hash |-> hash, version |-> 0]

\* ChildInfo{hash, version}: the descriptor of a child.
ChildInfo(hash, version) == [hash |-> hash, version |-> version]

\* A default-constructed InternalNode: no children.
InternalNodeEmpty ==
    [kind |-> "internal", bitmap |-> 0, children |-> <<>>,
     account_key |-> <<>>, value_hash |-> <<>>]

LeafNode(account_key, value_hash) ==
    [kind |-> "leaf", bitmap |-> 0, children |-> <<>>,
     account_key |-> account_key, value_hash |-> value_hash]

IsInternal(node) == node.kind = "internal"

\* A test that takes no node for a Leaf.
IsLeafNever(node) == FALSE

\* std::holds_alternative<LeafNode>(node).
IsLeaf(node) == node.kind = "leaf"

\* get_child that forgets the dense index: the first descriptor for every
\* present nibble.
GetChildFirst(node, nibble) ==
    IF ~exists(node.bitmap, nibble) THEN None
    ELSE Some(node.children[1])

\* InternalNode::get_child(nibble): the descriptor, or absent.
get_child(node, nibble) ==
    IF ~exists(node.bitmap, nibble) THEN None
    ELSE Some(node.children[get_index(node.bitmap, nibble) + 1])

\* vector::insert(begin() + idx, x).
InsertAt(seq, idx, x) ==
    SubSeq(seq, 1, idx) \o <<x>> \o SubSeq(seq, idx + 1, Len(seq))

\* A set_child that appends the descriptor of a new nibble at the end.
SetChildAppends(node, nibble, hash, version) ==
    LET info == ChildInfo(hash, version)
    IN  IF ~exists(node.bitmap, nibble)
        THEN [node EXCEPT !.bitmap = set(node.bitmap, nibble),
                          !.children = Append(node.children, info)]
        ELSE LET idx == get_index(node.bitmap, nibble)
             IN  [node EXCEPT !.children[idx + 1] = info]

\* InternalNode::set_child(nibble, hash, version).
set_child(node, nibble, hash, version) ==
    LET info == ChildInfo(hash, version)
    IN  IF ~exists(node.bitmap, nibble)
        THEN LET bm == set(node.bitmap, nibble)
                 idx == get_index(bm, nibble)
             IN  [node EXCEPT !.bitmap = bm,
                              !.children = InsertAt(node.children, idx, info)]
        ELSE LET idx == get_index(node.bitmap, nibble)
             IN  [node EXCEPT !.children[idx + 1] = info]

\* A count that is one too high for every non-empty child set.
ChildCountOneTooMany(node) ==
    IF node.bitmap = 0 THEN 0 ELSE total_children(node.bitmap) + 1

\* InternalNode::child_count(): bitmap.total_children().
child_count(node) == total_children(node.bitmap)

RECURSIVE SerializeChildren(_, _)
\* The loop of InternalNode::serialize_canonical over children, from index i.
SerializeChildren(children, i) ==
    IF i > Len(children) THEN <<>>
    ELSE children[i].hash \o LE(children[i].version, 8)
         \o SerializeChildren(children, i + 1)

\* An encoding with the two mask bytes in the other order.
InternalSerializeMaskBigEndian(node) ==
    <<node.bitmap \div 256, node.bitmap % 256>>
    \o SerializeChildren(node.children, 1)

\* InternalNode::serialize_canonical: mask (2 bytes LE), then per child the
\* hash and the version (8 bytes LE), in the order of the dense list.
InternalSerializeCanonical(node) ==
    LE(node.bitmap, 2) \o SerializeChildren(node.children, 1)

\* A leaf encoding with the two fields in the other order.
LeafSerializeSwapped(node) == node.value_hash \o node.account_key

\* LeafNode::serialize_canonical.
LeafSerializeCanonical(node) == node.account_key \o node.value_hash

serialize_node(node) ==
    IF IsInternal(node) THEN InternalSerializeCanonical(node)
    ELSE LeafSerializeCanonical(node)

\* final_buffer of InternalNode::hash: the domain, then the canonical bytes.
InternalFinalBuffer(serialized) == XOOK_INTERNAL_NODE_DOMAIN \o serialized

\* A leaf buffer that starts with the domain of the other kind.
LeafFinalBufferInternalDomain(serialized) ==
    XOOK_INTERNAL_NODE_DOMAIN \o serialized

\* final_buffer of LeafNode::hash.
LeafFinalBuffer(serialized) == XOOK_LEAF_NODE_DOMAIN \o serialized

\* InternalNode::hash and LeafNode::hash: blake3(domain || canonical).
hash_node(node) ==
    IF IsInternal(node)
    THEN Blake3(InternalFinalBuffer(InternalSerializeCanonical(node)))
    ELSE Blake3(LeafFinalBuffer(LeafSerializeCanonical(node)))

(***************************************************************************)
(* Framed node bytes.                                                      *)
(***************************************************************************)
\* A framing that writes the marker of the other kind.
SerializeWithSwappedMarker(node) ==
    IF IsInternal(node) THEN <<2>> \o InternalSerializeCanonical(node)
    ELSE <<1>> \o LeafSerializeCanonical(node)

\* serialize_node_with_prefix: the marker 0x01 or 0x02, then the canonical
\* bytes.
serialize_node_with_prefix(node) ==
    IF IsInternal(node) THEN <<1>> \o InternalSerializeCanonical(node)
    ELSE <<2>> \o LeafSerializeCanonical(node)

\* Bytes of one child record: the hash and 8 version bytes.
ChildRecordSize == HashLen + 8

RECURSIVE ReadChildren(_, _, _)
\* The child loop of deserialize_node_from_bytes: i children still to read
\* at 0-based offset pos.  [ok, children, pos].
ReadChildren(bytes, pos, i) ==
    IF i = 0 THEN [ok |-> TRUE, children |-> <<>>, pos |-> pos]
    ELSE IF pos + ChildRecordSize > Len(bytes)
    THEN [ok |-> FALSE, children |-> <<>>, pos |-> pos]
    ELSE LET info == ChildInfo(SubSeq(bytes, pos + 1, pos + HashLen),
                               FromLE(SubSeq(bytes, pos + HashLen + 1,
                                             pos + HashLen + 8)))
             rest == ReadChildren(bytes, pos + ChildRecordSize, i - 1)
         IN  [ok |-> rest.ok, children |-> <<info>> \o rest.children,
              pos |-> rest.pos]

\* A decoder without the length checks: it reads the fields it needs and
\* ignores what follows them.
DeserializeLenient(bytes) ==
    IF Len(bytes) = 0 THEN None
    ELSE IF bytes[1] = 1
    THEN IF Len(bytes) < 3 THEN None
         ELSE LET bitmap_mask == bytes[2] + bytes[3] * 256
                  r == ReadChildren(bytes, 3, total_children(bitmap_mask))
              IN  IF ~r.ok THEN None
                  ELSE Some([InternalNodeEmpty EXCEPT
                                 !.bitmap = bitmap_mask,
                                 !.children = r.children])
    ELSE IF bytes[1] = 2
    THEN IF Len(bytes) < 1 + 2 * HashLen THEN None
         ELSE Some(LeafNode(SubSeq(bytes, 2, 1 + HashLen),
                            SubSeq(bytes, 2 + HashLen, 1 + 2 * HashLen)))
    ELSE None

deserialize_node_from_bytes(bytes) ==
    IF Len(bytes) = 0 THEN None
    ELSE IF bytes[1] = 1
    THEN IF Len(bytes) < 3 THEN None
         ELSE LET bitmap_mask == bytes[2] + bytes[3] * 256
                  r == ReadChildren(bytes, 3, total_children(bitmap_mask))
              IN  IF ~r.ok THEN None
                  ELSE IF r.pos # Len(bytes) THEN None
                  ELSE Some([InternalNodeEmpty EXCEPT
                                 !.bitmap = bitmap_mask,
                                 !.children = r.children])
    ELSE IF bytes[1] = 2
    THEN IF Len(bytes) # 1 + 2 * HashLen THEN None
         ELSE Some(LeafNode(SubSeq(bytes, 2, 1 + HashLen),
                            SubSeq(bytes, 2 + HashLen, 1 + 2 * HashLen)))
    ELSE None

(***************************************************************************)
(* NodeKey: (version, path), the primary key of the node store.            *)
(***************************************************************************)
\* A key that carries the version before the one it is given.
NodeKeyPreviousVersion(version, nibble_path) ==
    [version |-> IF version > 0 THEN version - 1 ELSE 0,
     nibble_path |-> nibble_path]

\* A key that tells nodes apart by their path alone.
NodeKeyPathOnly(version, nibble_path) ==
    [version |-> 0, nibble_path |-> nibble_path]

NodeKey(version, nibble_path) ==
    [version |-> version, nibble_path |-> nibble_path]

\* A key encoding without the version.
NodeKeySerializeNoVersion(key) ==
    LE(0, 8) \o LE(key.nibble_path.num_nibbles, 4) \o key.nibble_path.bytes

\* NodeKey::serialize: 8 version bytes LE, 4 path-length bytes LE (in
\* nibbles), then the packed path bytes.
NodeKeySerialize(key) ==
    LE(key.version, 8) \o LE(key.nibble_path.num_nibbles, 4)
    \o key.nibble_path.bytes

\* NodeKey::operator<=>: by version, then by path.  -1, 0 or 1.
NodeKeyCmp(a, b) ==
    IF a.version < b.version THEN -1
    ELSE IF a.version > b.version THEN 1
    ELSE NibblePathCmp(a.nibble_path, b.nibble_path)

\* NodeKey::deserialize: absent for bytes shorter than the header and the
\* packed path they announce.
NodeKeyDeserialize(bytes) ==
    IF Len(bytes) < 12 THEN None
    ELSE LET version == FromLE(SubSeq(bytes, 1, 8))
             len == FromLE(SubSeq(bytes, 9, 12))
         IN  IF Len(bytes) < 12 + (len + 1) \div 2 THEN None
             ELSE Some(NodeKey(version,
                               from_bytes(SubSeq(bytes, 13, Len(bytes)), len)))

(***************************************************************************)
(* Finite maps (std::unordered_map): functions with a finite domain.       *)
(***************************************************************************)
EmptyMap == [k \in {} |-> None]

MapHas(m, k) == k \in DOMAIN m

MapSet(m, k, v) == [x \in DOMAIN m \cup {k} |-> IF x = k THEN v ELSE m[x]]

MapErase(m, k) == [x \in DOMAIN m \ {k} |-> m[x]]

MapSize(m) == Cardinality(DOMAIN m)

(***************************************************************************)
(* TreeCache: the LRU cache.  lru_list has the most recent key first;      *)
(* cache_map maps a key to its node (the list iterator kept beside the     *)
(* node in the program is the key's position in lru_list).                 *)
(***************************************************************************)
TreeCacheNew(capacity) ==
    [capacity |-> capacity, lru_list |-> <<>>, cache_map |-> EmptyMap]

\* lru_list_.splice(lru_list_.begin(), lru_list_, it): move key to the front.
SpliceToFront(list, key) ==
    LET Other(x) == x # key
    IN  <<key>> \o SelectSeq(list, Other)

\* A get that returns the node and leaves the list alone.
TreeCacheGetNoPromote(c, key) ==
    IF ~MapHas(c.cache_map, key) THEN [cache |-> c, result |-> None]
    ELSE [cache |-> c, result |-> Some(c.cache_map[key])]

\* TreeCache::get: [cache, result].
TreeCacheGet(c, key) ==
    IF ~MapHas(c.cache_map, key) THEN [cache |-> c, result |-> None]
    ELSE [cache |-> [c EXCEPT !.lru_list = SpliceToFront(c.lru_list, key)],
          result |-> Some(c.cache_map[key])]

\* The eviction branch of TreeCache::put: drop the back of the list.  The
\* list is non-empty whenever the capacity is at least 1.
TreeCacheEvict(c) ==
    IF MapSize(c.cache_map) >= c.capacity /\ Len(c.lru_list) > 0
    THEN LET last == c.lru_list[Len(c.lru_list)]
         IN  [c EXCEPT !.lru_list = SubSeq(c.lru_list, 1, Len(c.lru_list) - 1),
                       !.cache_map = MapErase(c.cache_map, last)]
    ELSE c

\* A put that keeps the node of a key the cache holds.
TreeCachePutKeepsNode(c, key, node) ==
    IF MapHas(c.cache_map, key)
    THEN [c EXCEPT !.lru_list = SpliceToFront(c.lru_list, key)]
    ELSE LET e == TreeCacheEvict(c)
         IN  [e EXCEPT !.lru_list = <<key>> \o e.lru_list,
                       !.cache_map = MapSet(e.cache_map, key, node)]

\* TreeCache::put.
TreeCachePut(c, key, node) ==
    IF MapHas(c.cache_map, key)
    THEN [c EXCEPT !.lru_list = SpliceToFront(c.lru_list, key),
                   !.cache_map = MapSet(c.cache_map, key, node)]
    ELSE LET e == TreeCacheEvict(c)
         IN  [e EXCEPT !.lru_list = <<key>> \o e.lru_list,
                       !.cache_map = MapSet(e.cache_map, key, node)]

TreeCacheClear(c) == [c EXCEPT !.lru_list = <<>>, !.cache_map = EmptyMap]

TreeCacheSize(c) == MapSize(c.cache_map)

(***************************************************************************)
(* SpeculativeTreeCache: overlay_ and injected_ over a base TreeCache.     *)
(***************************************************************************)
SpeculativeTreeCacheNew == [overlay |-> EmptyMap, injected |-> EmptyMap]

inject_node(sc, key, node) ==
    [sc EXCEPT !.injected = MapSet(sc.injected, key, node)]

\* A get that looks into injected_ before overlay_.
SpeculativeGetInjectedFirst(sc, base, key) ==
    IF MapHas(sc.injected, key)
    THEN [base |-> base, result |-> Some(sc.injected[key])]
    ELSE IF MapHas(sc.overlay, key)
    THEN [base |-> base, result |-> Some(sc.overlay[key])]
    ELSE LET r == TreeCacheGet(base, key)
         IN  [base |-> r.cache, result |-> r.result]

\* SpeculativeTreeCache::get over the base cache: [base, result].
SpeculativeGet(sc, base, key) ==
    IF MapHas(sc.overlay, key)
    THEN [base |-> base, result |-> Some(sc.overlay[key])]
    ELSE IF MapHas(sc.injected, key)
    THEN [base |-> base, result |-> Some(sc.injected[key])]
    ELSE LET r == TreeCacheGet(base, key)
         IN  [base |-> r.cache, result |-> r.result]

SpeculativePut(sc, key, node) ==
    [sc EXCEPT !.overlay = MapSet(sc.overlay, key, node)]

SpeculativeClear(sc) == SpeculativeTreeCacheNew

SpeculativeSize(sc) == MapSize(sc.overlay) + MapSize(sc.injected)

(***************************************************************************)
(* A TreeCache* as the engine holds it: the adapter's cache itself, or a   *)
(* speculative overlay over it (virtual dispatch on get and put).          *)
(***************************************************************************)
PlainHandle(base) ==
    [speculative |-> FALSE, base |-> base, sc |-> SpeculativeTreeCacheNew]

SpeculativeHandle(base, sc) ==
    [speculative |-> TRUE, base |-> base, sc |-> sc]

\* cache_->get(key): [handle, result].
CacheGet(h, key) ==
    IF h.speculative
    THEN LET r == SpeculativeGet(h.sc, h.base, key)
         IN  [handle |-> [h EXCEPT !.base = r.base], result |-> r.result]
    ELSE LET r == TreeCacheGet(h.base, key)
         IN  [handle |-> [h EXCEPT !.base = r.cache], result |-> r.result]

\* A put that is not overridden by the overlay: it lands in the base cache.
CachePutNoOverride(h, key, node) ==
    [h EXCEPT !.base = TreeCachePut(h.base, key, node)]

\* cache_->put(key, node).
CachePut(h, key, node) ==
    IF h.speculative
    THEN [h EXCEPT !.sc = SpeculativePut(h.sc, key, node)]
    ELSE [h EXCEPT !.base = TreeCachePut(h.base, key, node)]

(***************************************************************************)
(* The node store behind XookAdapter::ExternalReader: a map from           *)
(* serialized NodeKey bytes to framed node bytes.                          *)
(***************************************************************************)
\* ExternalReader::get_node_bytes.
get_node_bytes(db, key) ==
    LET key_bytes == NodeKeySerialize(key)
    IN  IF MapHas(db, key_bytes) THEN Some(db[key_bytes]) ELSE None

(***************************************************************************)
(* XookTree, the trie engine (xook_merkle_tree.hpp).  It reads nodes       *)
(* through the cache and then the reader, and writes every node it creates *)
(* to the cache and to the returned node batch.                            *)
(***************************************************************************)
\* Read one node: the cache first, then the reader; a node the reader
\* supplies is decoded and cached.  [h, result, err].
TreeReadNode(h, db, key) ==
    LET c == CacheGet(h, key)
    IN  IF IsSome(c.result)
        THEN [h |-> c.handle, result |-> c.result, err |-> ""]
        ELSE LET bytes == get_node_bytes(db, key)
             IN  IF ~IsSome(bytes)
                 THEN [h |-> c.handle, result |-> None, err |-> ""]
                 ELSE LET node == deserialize_node_from_bytes(Val(bytes))
                      IN  IF ~IsSome(node)
                          THEN [h |-> c.handle, result |-> None,
                                err |-> "Corruption"]
                          ELSE [h |-> CachePut(c.handle, key, Val(node)),
                                result |-> node, err |-> ""]

\* The total order of key hashes: that of their nibble paths.
KeyCmp(a, b) == NibblePathCmp(from_binary(a), from_binary(b))

\* An update after normalisation: the key hash and the hash of the value
\* bytes (absent for a deletion).
Update(key, val) == [key |-> key, val |-> val]

HasDuplicateKey(updates) ==
    \E i, j \in 1..Len(updates) : i < j /\ updates[i].key = updates[j].key

RECURSIVE InsertSorted(_, _, _)
\* Insert u into the sorted sequence, before the first entry from index i
\* on whose key is greater.
InsertSorted(sorted, u, i) ==
    IF i > Len(sorted) THEN Append(sorted, u)
    ELSE IF KeyCmp(u.key, sorted[i].key) < 0
    THEN InsertAt(sorted, i - 1, u)
    ELSE InsertSorted(sorted, u, i + 1)

RECURSIVE SortUpdates(_)
\* Sort by key hash ascending.
SortUpdates(ups) ==
    IF Len(ups) = 0 THEN <<>>
    ELSE InsertSorted(SortUpdates(SubSeq(ups, 1, Len(ups) - 1)),
                      ups[Len(ups)], 1)

\* Step 1 of the batch apply: hash every value, sort by key hash.
Normalize(updates) ==
    SortUpdates([i \in 1..Len(updates) |->
        Update(updates[i].key,
               IF IsSome(updates[i].value)
               THEN Some(Blake3(Val(updates[i].value))) ELSE None)])

\* The nibble at depth d of an update's key.
NibbleAt(u, d) == get_nibble(from_binary(u.key), d)

RECURSIVE RunEnd(_, _, _, _)
\* The last index of the run of updates from i on whose nibble at d is n.
RunEnd(ups, d, i, n) ==
    IF i + 1 <= Len(ups) /\ NibbleAt(ups[i + 1], d) = n
    THEN RunEnd(ups, d, i + 1, n) ELSE i

RECURSIVE Partition(_, _, _)
\* The sorted batch partitioned by the nibble at depth d: its contiguous
\* runs, in batch order, from index i on.
Partition(ups, d, i) ==
    IF i > Len(ups) THEN <<>>
    ELSE LET n == NibbleAt(ups[i], d)
             j == RunEnd(ups, d, i, n)
         IN  <<[nibble |-> n, ups |-> SubSeq(ups, i, j)]>>
             \o Partition(ups, d, j + 1)

AllDeletions(ups) == \A i \in 1..Len(ups) : ~IsSome(ups[i].val)

\* Results of the descent into one subtree.  st is "same" (the subtree is
\* unchanged), "empty" (it is now empty) or "node" (it is now node); out
\* holds the nodes emitted below it; h is the cache handle afterwards.
RSame(h) ==
    [st |-> "same", node |-> InternalNodeEmpty, out |-> <<>>, h |-> h,
     err |-> ""]

REmpty(h) ==
    [st |-> "empty", node |-> InternalNodeEmpty, out |-> <<>>, h |-> h,
     err |-> ""]

RNode(h, node, out) ==
    [st |-> "node", node |-> node, out |-> out, h |-> h, err |-> ""]

RErr(h, err) ==
    [st |-> "same", node |-> InternalNodeEmpty, out |-> <<>>, h |-> h,
     err |-> err]

\* One entry of the node batch.
Emitted(version, path, node) ==
    [key |-> NodeKey(version, path), node |-> node]

RECURSIVE ApplyAt(_, _, _, _, _, _)
RECURSIVE ApplyRuns(_, _, _, _, _, _, _)
RECURSIVE CombineChildren(_, _, _, _, _, _, _)

\* A node that is referenced must be retrievable.
ReadPresent(read) ==
    IF read.err = "" /\ ~IsSome(read.result)
    THEN [read EXCEPT !.err = "StorageError"]
    ELSE read

\* The child of the Internal old (absent for an empty subtree) at nibble n
\* below path, read at (child.origin_version, path to the child); an absent
\* child is the empty subtree.  [h, result, err].
ReadChild(h, db, old, path, n) ==
    IF IsSome(old) /\ IsSome(get_child(Val(old), n))
    THEN ReadPresent(TreeReadNode(h, db,
             NodeKey(Val(get_child(Val(old), n)).version, push(path, n))))
    ELSE [h |-> h, result |-> None, err |-> ""]

\* The result r of run n, before the results rest of the later runs.
ConsResult(n, r, rest) ==
    [h |-> rest.h, err |-> rest.err,
     results |-> <<[nibble |-> n, st |-> r.st, node |-> r.node,
                    out |-> r.out]>> \o rest.results]

\* After the descent into run i, whose result is r: the later runs.
ApplyRunsRest(db, old, path, runs, i, version, r) ==
    IF r.err # "" THEN [h |-> r.h, err |-> r.err, results |-> <<>>]
    ELSE ConsResult(runs[i].nibble, r,
                    ApplyRuns(r.h, db, old, path, runs, i + 1, version))

\* The descent into run i, whose subtree has been read.
ApplyRunsChild(db, old, path, runs, i, version, read) ==
    IF read.err # "" THEN [h |-> read.h, err |-> read.err, results |-> <<>>]
    ELSE ApplyRunsRest(db, old, path, runs, i, version,
             ApplyAt(read.h, db, read.result, push(path, runs[i].nibble),
                     runs[i].ups, version))

\* Step 3 for the runs from index i on, below the Internal old (absent for
\* an empty subtree) at path: the result of every run, in order.
\* [h, err, results], a result being [nibble, st, node, out].
ApplyRuns(h, db, old, path, runs, i, version) ==
    IF i > Len(runs) THEN [h |-> h, err |-> "", results |-> <<>>]
    ELSE ApplyRunsChild(db, old, path, runs, i, version,
                        ReadChild(h, db, old, path, runs[i].nibble))

\* The result of the last run on nibble n, if any.
LastResult(results, n) ==
    LET idx == {i \in 1..Len(results) : results[i].nibble = n}
    IN  IF idx = {} THEN None
        ELSE Some(results[CHOOSE i \in idx : \A j \in idx : j <= i])

RECURSIVE Ascending(_)
\* The numbers of a finite set in ascending order.
Ascending(S) ==
    IF S = {} THEN <<>>
    ELSE LET m == CHOOSE x \in S : \A y \in S : x <= y
         IN  <<m>> \o Ascending(S \ {m})

\* The nibbles at which the new Internal may have a child, ascending: those
\* of the old Internal and those of the runs.
ChildNibbles(old, results) ==
    Ascending({n \in 0..15 :
        \/ IsSome(old) /\ exists(Val(old).bitmap, n)
        \/ \E i \in 1..Len(results) : results[i].nibble = n})

\* The new Internal with the child that run result r rebuilt at nibble n:
\* the child is emitted at the new version, its descriptor is its hash and
\* the new version.
WithNewChild(acc, path, n, r, version) ==
    [node |-> set_child(acc.node, n, hash_node(r.node), version),
     out |-> acc.out \o r.out \o <<Emitted(version, push(path, n), r.node)>>,
     h |-> CachePut(acc.h, NodeKey(version, push(path, n)), r.node)]

\* The new Internal with the untouched child kept: its descriptor is kept.
WithKeptChild(acc, n, kept) ==
    [acc EXCEPT !.node = set_child(acc.node, n, kept.hash, kept.version)]

\* The children of the new Internal, for the nibbles nibs from index i on,
\* in ascending nibble order: acc is [node, out, h], the Internal built so
\* far by set_child, the nodes emitted so far, and the cache handle.
CombineChildren(old, path, results, version, nibs, i, acc) ==
    IF i > Len(nibs) THEN acc
    ELSE CombineChildren(old, path, results, version, nibs, i + 1,
             IF /\ IsSome(LastResult(results, nibs[i]))
                /\ Val(LastResult(results, nibs[i])).st = "node"
             THEN WithNewChild(acc, path, nibs[i],
                               Val(LastResult(results, nibs[i])), version)
             ELSE IF /\ \/ ~IsSome(LastResult(results, nibs[i]))
                        \/ Val(LastResult(results, nibs[i])).st = "same"
                     /\ IsSome(old)
                     /\ IsSome(get_child(Val(old), nibs[i]))
             THEN WithKeptChild(acc, nibs[i],
                                Val(get_child(Val(old), nibs[i])))
             ELSE acc)

\* The only nibble of an Internal with one child.
OnlyNibble(node) == CHOOSE n \in 0..15 : exists(node.bitmap, n)

\* The collapse of an Internal whose only child is untouched and has been
\* read: a Leaf is promoted, an Internal is kept below the new Internal.
PromoteKept(full, read) ==
    IF read.err # "" THEN RErr(read.h, read.err)
    ELSE IF IsLeaf(Val(read.result))
    THEN RNode(read.h, Val(read.result), <<>>)
    ELSE RNode(read.h, full.node, <<>>)

\* Step 4 for an Internal with the only child at nibble n: a Leaf is
\* promoted to the parent path, an Internal is kept.
CollapseOne(db, old, path, rr, full, n) ==
    IF /\ IsSome(LastResult(rr.results, n))
       /\ Val(LastResult(rr.results, n)).st = "node"
    THEN IF IsLeaf(Val(LastResult(rr.results, n)).node)
         THEN RNode(rr.h, Val(LastResult(rr.results, n)).node, <<>>)
         ELSE RNode(full.h, full.node, full.out)
    ELSE PromoteKept(full,
             ReadPresent(TreeReadNode(rr.h, db,
                 NodeKey(Val(get_child(Val(old), n)).version,
                         push(path, n)))))

\* Step 4, the collapse rule, for the new Internal full = [node, out, h].
Collapse(db, old, path, rr, full) ==
    IF child_count(full.node) = 0 THEN REmpty(rr.h)
    ELSE IF child_count(full.node) = 1
    THEN CollapseOne(db, old, path, rr, full, OnlyNibble(full.node))
    ELSE RNode(full.h, full.node, full.out)

\* Steps 3 and 4 after the descent into every run, whose results are rr:
\* combine the children and apply the collapse rule.
BuildFromRuns(db, old, path, version, rr) ==
    IF rr.err # "" THEN RErr(rr.h, rr.err)
    ELSE IF \A i \in 1..Len(rr.results) : rr.results[i].st = "same"
    THEN RSame(rr.h)
    ELSE Collapse(db, old, path, rr,
             CombineChildren(old, path, rr.results, version,
                 ChildNibbles(old, rr.results), 1,
                 [node |-> InternalNodeEmpty, out |-> <<>>, h |-> rr.h]))

\* Steps 3 and 4 at an Internal (old) or at an empty subtree that gets an
\* Internal (old absent): recurse into every run, combine the children and
\* apply the collapse rule.
BuildInternal(h, db, old, path, ups, version) ==
    BuildFromRuns(db, old, path, version,
        ApplyRuns(h, db, old, path, Partition(ups, path.num_nibbles, 1), 1,
                  version))

\* A Leaf subtree sub and the updates ups: some update is on the leaf's key.
OwnKey(sub, ups) ==
    \E i \in 1..Len(ups) : ups[i].key = Val(sub).account_key

\* A Leaf subtree sub and the updates ups: every update is on the leaf's
\* key.
OnlyOwnKey(sub, ups) ==
    \A i \in 1..Len(ups) : ups[i].key = Val(sub).account_key

\* The updates an Internal is built from in place of the Leaf sub: the
\* leaf is one more update on its own nibble unless ups has its key.
MergedUpdates(sub, ups) ==
    IF IsSome(sub) /\ IsLeaf(Val(sub)) /\ ~OwnKey(sub, ups)
    THEN InsertSorted(ups, Update(Val(sub).account_key,
                                  Some(Val(sub).value_hash)), 1)
    ELSE ups

\* The result r of the Internal built in place of sub: a Leaf whose key
\* was deleted and nothing else added is gone.
AfterBuild(sub, r) ==
    IF IsSome(sub) /\ IsLeaf(Val(sub)) /\ r.err = "" /\ r.st = "same"
    THEN REmpty(r.h)
    ELSE r

\* Step 3 at the subtree sub (absent: empty) rooted at path, for the
\* non-empty sorted run ups.
ApplyAt(h, db, sub, path, ups, version) ==
    IF ~IsSome(sub) /\ Len(ups) = 1
    THEN IF IsSome(ups[1].val)
         THEN RNode(h, LeafNode(ups[1].key, Val(ups[1].val)), <<>>)
         ELSE RSame(h)
    ELSE IF IsSome(sub) /\ IsLeaf(Val(sub)) /\ OnlyOwnKey(sub, ups)
    THEN IF IsSome(ups[Len(ups)].val)
         THEN RNode(h, LeafNode(ups[Len(ups)].key, Val(ups[Len(ups)].val)),
                    <<>>)
         ELSE REmpty(h)
    ELSE IF /\ IsSome(sub) /\ IsLeaf(Val(sub))
            /\ ~OwnKey(sub, ups) /\ AllDeletions(ups)
    THEN RSame(h)
    ELSE AfterBuild(sub,
             BuildInternal(h, db,
                 IF IsSome(sub) /\ IsInternal(Val(sub)) THEN sub ELSE None,
                 path, MergedUpdates(sub, ups), version))

\* Step 2: the subtree the batch starts from.  [h, result, err].
LoadBase(h, db, base_root, base_version) ==
    IF IsSome(base_version) /\ IsSome(base_root)
    THEN LET read == TreeReadNode(h, db,
                         NodeKey(Val(base_version), NibblePathEmpty))
         IN  IF read.err = "" /\ ~IsSome(read.result)
                /\ Val(base_root) # ZeroHash
             THEN [read EXCEPT !.err = "StorageError"]
             ELSE read
    ELSE [h |-> h, result |-> None, err |-> ""]

\* The framed entries of the node batch.
RECURSIVE NodeBatch(_)
NodeBatch(out) ==
    IF Len(out) = 0 THEN <<>>
    ELSE <<[key |-> out[1].key,
            bytes |-> serialize_node_with_prefix(out[1].node)]>>
         \o NodeBatch(Tail(out))

Failure(h, err) ==
    [ok |-> FALSE, err |-> err, new_root_hash |-> ZeroHash,
     node_batch |-> <<>>, h |-> h]

\* The root after the batch: the new node, the base root of an unchanged
\* tree, or absent for the empty tree.
NewRoot(base, r) ==
    IF r.st = "node" THEN Some(r.node)
    ELSE IF r.st = "same" THEN base.result
    ELSE None

\* Step 6: the root node is written at (version, empty path);
\* new_root_hash is its hash, or the all-zero hash of the empty tree.
Finalize(version, r, root) ==
    IF r.err # "" THEN Failure(r.h, r.err)
    ELSE IF ~IsSome(root)
    THEN [ok |-> TRUE, err |-> "", new_root_hash |-> ZeroHash,
          node_batch |-> NodeBatch(r.out), h |-> r.h]
    ELSE [ok |-> TRUE, err |-> "", new_root_hash |-> hash_node(Val(root)),
          node_batch |->
              NodeBatch(r.out \o
                  <<Emitted(version, NibblePathEmpty, Val(root))>>),
          h |-> CachePut(r.h, NodeKey(version, NibblePathEmpty), Val(root))]

\* Step 6 for the result r of the descent from the base subtree.
FinalizeFrom(version, base, r) == Finalize(version, r, NewRoot(base, r))

\* Steps 3 to 6 once the base subtree is loaded.
PutFromBase(db, sorted, version, base) ==
    IF base.err # "" THEN Failure(base.h, base.err)
    ELSE FinalizeFrom(version, base,
             IF Len(sorted) = 0 THEN RSame(base.h)
             ELSE ApplyAt(base.h, db, base.result, NibblePathEmpty, sorted,
                          version))

\* put_value_set(updates, version, base_root, base_version) on the tree
\* whose cache is h and whose reader reads db.  updates is a sequence of
\* [key, value]: value is the value bytes, absent for a deletion.
\* [ok, err, new_root_hash, node_batch, h].
put_value_set(h, db, updates, version, base_root, base_version) ==
    IF HasDuplicateKey(updates) THEN Failure(h, "DuplicateKey")
    ELSE PutFromBase(db, Normalize(updates), version,
                     LoadBase(h, db, base_root, base_version))

RECURSIVE Descend(_, _, _, _, _)
\* The lookup below node at path for key_hash.  [h, result, err].
Descend(h, db, node, path, key_hash) ==
    IF IsLeaf(node)
    THEN [h |-> h,
          result |-> IF node.account_key = key_hash
                     THEN Some(node.value_hash) ELSE None,
          err |-> ""]
    ELSE LET n == get_nibble(from_binary(key_hash), path.num_nibbles)
             child == get_child(node, n)
         IN  IF ~IsSome(child) THEN [h |-> h, result |-> None, err |-> ""]
             ELSE LET read == TreeReadNode(h, db,
                                  NodeKey(Val(child).version, push(path, n)))
                  IN  IF read.err # "" THEN read
                      ELSE IF ~IsSome(read.result)
                      THEN [read EXCEPT !.err = "StorageError"]
                      ELSE Descend(read.h, db, Val(read.result),
                                   push(path, n), key_hash)

\* XookTree::get(key_hash, version).  [h, result, err].
tree_get(h, db, key_hash, version) ==
    LET read == TreeReadNode(h, db, NodeKey(version, NibblePathEmpty))
    IN  IF read.err # "" \/ ~IsSome(read.result) THEN read
        ELSE Descend(read.h, db, Val(read.result), NibblePathEmpty, key_hash)

\* XookTree::get_root_hash(version).  [h, hash, err].
tree_get_root_hash(h, db, version) ==
    LET read == TreeReadNode(h, db, NodeKey(version, NibblePathEmpty))
    IN  [h |-> read.h,
         hash |-> IF IsSome(read.result) THEN hash_node(Val(read.result))
                  ELSE ZeroHash,
         err |-> read.err]

(***************************************************************************)
(* XookAdapter: the accumulator over the tree.                             *)
(***************************************************************************)
\* glofica::Bytes value_bytes(value_hash.begin(), value_hash.end()): the
\* bytes of a hash, copied.
HashToBytes(hash) == [i \in 1..Len(hash) |-> hash[i]]

\* A conversion that copies the first byte only.
BytesToHashFirstByte(bytes) ==
    [i \in 1..HashLen |-> IF i = 1 /\ Len(bytes) >= 1 THEN bytes[1] ELSE 0]

\* The conversion of XookAdapter::get: the first HashLen bytes of the
\* result, or the result padded with zero bytes.
BytesToHash(bytes) ==
    [i \in 1..HashLen |-> IF i <= Len(bytes) THEN bytes[i] ELSE 0]

\* The loop that converts (raw key, value hash) pairs to engine updates.
ConvertUpdates(updates) ==
    [i \in 1..Len(updates) |->
        [key |-> Blake3(updates[i].key),
         value |-> Some(HashToBytes(updates[i].value_hash))]]

\* The orders in which the unordered pending map may be iterated, as
\* sequences of engine updates.
PendingOrders(pending) ==
    {[i \in 1..Len(o) |-> [key |-> o[i], value |-> Some(pending[o[i]])]] :
        o \in {q \in [1..Cardinality(DOMAIN pending) -> DOMAIN pending] :
                  \A i, j \in DOMAIN q : q[i] = q[j] => i = j}}

\* XookAdapter::put: the pending map afterwards.
adapter_put(pending, key, value_hash) ==
    MapSet(pending, Blake3(key), HashToBytes(value_hash))

\* The batch result r of put_value_set as the adapter returns it; flushed
\* tells that the adapter went on to clear the pending map (flush, and
\* put_value_set succeeded).
AdapterResult(r, batch, flush) ==
    [ok |-> r.ok, err |-> r.err, new_root_hash |-> r.new_root_hash,
     node_batch |-> r.node_batch, h |-> r.h, flushed |-> flush /\ r.ok,
     batch |-> batch]

\* XookAdapter::calculate_root, the pending map being iterated in the order
\* order.  The result of put_value_set and flushed, or base_root and
\* nothing else for an empty batch.
calculate_root(c, store, updates, base_root, version, base_version, order) ==
    LET batch == ConvertUpdates(updates) \o order
    IN  IF Len(batch) = 0
        THEN [ok |-> TRUE, err |-> "", new_root_hash |-> base_root,
              node_batch |-> <<>>, h |-> PlainHandle(c), flushed |-> FALSE,
              batch |-> batch]
        ELSE AdapterResult(
                 put_value_set(PlainHandle(c), store, batch, version,
                               Some(base_root), base_version),
                 batch, TRUE)

RECURSIVE InjectParents(_, _, _)
\* The loop over parent_nodes: every pair whose key and node both decode is
\* injected.
InjectParents(sc, parent_nodes, i) ==
    IF i > Len(parent_nodes) THEN sc
    ELSE LET node_key_opt == NodeKeyDeserialize(parent_nodes[i].node_key_bytes)
             node_val_opt ==
                 deserialize_node_from_bytes(parent_nodes[i].node_val_bytes)
         IN  InjectParents(
                 IF IsSome(node_key_opt) /\ IsSome(node_val_opt)
                 THEN inject_node(sc, Val(node_key_opt), Val(node_val_opt))
                 ELSE sc,
                 parent_nodes, i + 1)

\* XookAdapter::calculate_root_speculative; parent_nodes is absent for a
\* null pointer.
calculate_root_speculative(c, store, updates, base_root, version, base_version, parent_nodes) ==
    LET sc == IF IsSome(parent_nodes)
              THEN InjectParents(SpeculativeTreeCacheNew, Val(parent_nodes), 1)
              ELSE SpeculativeTreeCacheNew
        batch == ConvertUpdates(updates)
    IN  AdapterResult(
            put_value_set(SpeculativeHandle(c, sc), store, batch, version,
                          Some(base_root), base_version),
            batch, FALSE)

\* XookAdapter::update_batch_with_precomputed_hashes.
update_batch_with_precomputed_hashes(c, store, updates, version, base_root, base_version) ==
    put_value_set(PlainHandle(c), store, ConvertUpdates(updates), version,
                  base_root, base_version)

\* XookAdapter::get.  [h, result, err].
adapter_get(c, store, key, version) ==
    LET r == tree_get(PlainHandle(c), store, Blake3(key), version)
    IN  [h |-> r.h,
         result |-> IF IsSome(r.result)
                    THEN Some(BytesToHash(Val(r.result))) ELSE None,
         err |-> r.err]

\* XookAdapter::get_root_hash.  [h, hash, err].
adapter_get_root_hash(c, store, cur_version, cur_root, version) ==
    IF version = cur_version
    THEN [h |-> PlainHandle(c), hash |-> cur_root, err |-> ""]
    ELSE tree_get_root_hash(PlainHandle(c), store, version)

(***************************************************************************)
(* The environment: the raw account keys and the values it uses, the node  *)
(* store it persists node batches to.                                      *)
(***************************************************************************)
\* The byte of each raw account key: the hashes of the first two share their
\* first nibble, the others do not.
KeyByte == <<1, 2, 6, 38, 70>>

RawKey(i) == <<KeyByte[i]>>

RawKeys == {RawKey(i) : i \in 1..NumKeys}

KeyHashes == {Blake3(k) : k \in RawKeys}

\* The values: hashes, that the adapter passes on as value bytes.
Values == {Fill(i) : i \in 1..NumVals}

Versions == 1..MaxVersion

\* The sequences of at most n elements of S.
SeqUpTo(S, n) == UNION {[1..m -> S] : m \in 0..n}

\* The update lists of the engine: (key_hash, value bytes or deletion).
EngineUpdates ==
    SeqUpTo([key : KeyHashes, value : {None} \cup {Some(v) : v \in Values}],
            MaxBatch)

\* The update lists of the adapter: (raw key, value hash).
AdapterUpdates == SeqUpTo([key : RawKeys, value_hash : Values], MaxBatch)

\* The permutations of a sequence.
Perms(s) ==
    {[i \in 1..Len(s) |-> s[p[i]]] :
        p \in {q \in [1..Len(s) -> 1..Len(s)] :
                  \A i, j \in 1..Len(s) : q[i] = q[j] => i = j}}

\* The node store after the atomic persist of a node batch.
Persist(store, batch) ==
    LET new == {NodeKeySerialize(batch[i].key) : i \in 1..Len(batch)}
    IN  [kb \in DOMAIN store \cup new |->
            IF kb \in new
            THEN batch[CHOOSE i \in 1..Len(batch) :
                           /\ NodeKeySerialize(batch[i].key) = kb
                           /\ \A j \in (i + 1)..Len(batch) :
                                  NodeKeySerialize(batch[j].key) # kb].bytes
            ELSE store[kb]]

(***************************************************************************)
(* The state.                                                              *)
(***************************************************************************)
VARIABLES
    db,                 \* the node store behind the reader: key bytes to
                        \* framed node bytes
    cache,              \* cache_: the tree's node cache
    pending_updates,    \* pending_updates_: key_hash to value bytes
    current_version,    \* current_version_
    last_root,          \* last_root_
    spec_cache,         \* a SpeculativeTreeCache over cache_
    roots,              \* version to the root hash of its last write
    nOps,               \* the number of operations so far
    last,               \* the last operation: its arguments and result
    prev,               \* the state before the last operation
    touched,            \* cache key to when it was inserted and last
                        \* touched by a successful get or a put
    path,               \* a NibblePath object
    internal,           \* an InternalNode object
    set_calls,          \* the set_child calls made on it, in order
    overlay_log,        \* for each key, the node last put on and the node
                        \* last injected into spec_cache since its last
                        \* clear; kept beside it and never read by it
    threads,            \* for each thread, where it is in the call it makes
                        \* and the locals of the call
    mutex,              \* mutex_ of the cache: its exclusive owner and its
                        \* shared holders
    serial,             \* the cache that results from the calls run whole,
                        \* one after another in the order in which they
                        \* took the lock; kept beside the cache
    overlays            \* for each thread, the SpeculativeTreeCache it owns
                        \* and the record of its puts and injects

vars ==
    <<db, cache, pending_updates, current_version, last_root, spec_cache,
      roots, nOps, last, prev, touched, path, internal,
      set_calls, overlay_log, threads, mutex, serial, overlays>>

\* The InternalNode object and the calls made on it, that every operation
\* on another object leaves alone.
nodeVars == <<internal, set_calls>>

\* The record of a put or an inject of the node for the key.
Logged(log, key, node) ==
    [k \in DOMAIN log \cup {key} |-> IF k = key THEN node ELSE log[k]]

\* Nothing put and nothing injected.
OverlayLogEmpty == [put |-> <<>>, injected |-> <<>>]

\* The threads, the lock and the overlays the threads own, that a
\* single-threaded operation leaves alone.
threadVars == <<threads, mutex, serial, overlays>>

Threads == 1..NumThreads

\* A thread that makes no call.
IdleThread ==
    [pc |-> "idle", op |-> "none", key |-> <<>>, node |-> None,
     found |-> FALSE, result |-> None, expected |-> None,
     via |-> "cache", wanted |-> None]

\* std::shared_mutex, unlocked.
MutexFree == [owner |-> None, shared |-> {}]

\* No thread has made a call.
ThreadsInit ==
    /\ threads = [t \in Threads |-> IdleThread]
    /\ mutex = MutexFree
    /\ serial = cache
    /\ overlays = [t \in Threads |->
                      [sc |-> SpeculativeTreeCacheNew,
                       log |-> OverlayLogEmpty]]


\* The fields of the adapter and the overlay, that the tree's own operations
\* leave alone.
adapterVars == <<pending_updates, current_version, last_root>>

\* The record of an operation that has no batch.
NoOp ==
    [op |-> "none", batch |-> <<>>, version |-> 0, base_root |-> None,
     base_version |-> None, ok |-> TRUE, err |-> "",
     new_root_hash |-> ZeroHash, node_batch |-> <<>>, key |-> <<>>,
     result |-> None, updates |-> <<>>, parent_nodes |-> None,
     node |-> None, bytes |-> <<>>, nibble |-> 0]

\* The state an operation starts from.
Before ==
    [db |-> db, cache |-> cache, pending_updates |-> pending_updates,
     current_version |-> current_version, last_root |-> last_root,
     spec_cache |-> spec_cache, touched |-> touched, path |-> path,
     internal |-> internal]

Init ==
    /\ db = EmptyMap
    /\ cache = TreeCacheNew(AdapterCacheCapacity)
    /\ pending_updates = EmptyMap
    /\ current_version = 0
    /\ last_root = ZeroHash
    /\ spec_cache = SpeculativeTreeCacheNew
    /\ roots = EmptyMap
    /\ nOps = 0
    /\ last = NoOp
    /\ prev = [db |-> EmptyMap, cache |-> TreeCacheNew(AdapterCacheCapacity),
               pending_updates |-> EmptyMap, current_version |-> 0,
               last_root |-> ZeroHash,
               spec_cache |-> SpeculativeTreeCacheNew, touched |-> EmptyMap,
               path |-> NibblePathEmpty,
               internal |-> InternalNodeEmpty]
    /\ path = NibblePathEmpty
    /\ internal = InternalNodeEmpty
    /\ set_calls = <<>>
    /\ overlay_log = OverlayLogEmpty
    /\ ThreadsInit
    /\ touched = EmptyMap

\* The versions a caller may write next: the store commits one root for
\* every monotonically increasing version, so a version is written once
\* and after every smaller written one.
WritableVersions == {v \in Versions : \A w \in DOMAIN roots : w < v}

\* The base arguments a caller passes: none, the root of a written version
\* with that version, or that root without a version.
BaseArgs ==
    {[base_root |-> None, base_version |-> None]}
    \cup {[base_root |-> Some(roots[v]), base_version |-> Some(v)] :
             v \in DOMAIN roots}
    \cup {[base_root |-> Some(roots[v]), base_version |-> None] :
             v \in DOMAIN roots}

(***************************************************************************)
(* The operations of the tree (tree_, an XookTree over the reader and      *)
(* cache_), called directly.                                               *)
(***************************************************************************)
\* tree_->put_value_set(updates, version, base_root, base_version); the
\* caller persists the node batch of a success atomically.
PutValueSet(updates, version, base) ==
    /\ nOps < MaxOps
    /\ \E r \in {put_value_set(PlainHandle(cache), db, updates, version,
                               base.base_root, base.base_version)} :
        /\ cache' = r.h.base
        /\ db' = IF r.ok THEN Persist(db, r.node_batch) ELSE db
        /\ roots' = IF r.ok THEN MapSet(roots, version, r.new_root_hash)
                    ELSE roots
        /\ nOps' = nOps + 1
        /\ UNCHANGED <<nodeVars, overlay_log, threadVars>>
        /\ last' = [NoOp EXCEPT !.op = "put_value_set", !.batch = updates,
                        !.version = version, !.base_root = base.base_root,
                        !.base_version = base.base_version, !.ok = r.ok,
                        !.err = r.err, !.new_root_hash = r.new_root_hash,
                        !.node_batch = r.node_batch]
        /\ prev' = Before
        /\ UNCHANGED <<touched, path>>
        /\ UNCHANGED <<adapterVars, spec_cache>>

\* tree_->get(key_hash, version).
TreeGet(key_hash, version) ==
    /\ nOps < MaxOps
    /\ \E r \in {tree_get(PlainHandle(cache), db, key_hash, version)} :
        /\ cache' = r.h.base
        /\ nOps' = nOps + 1
        /\ UNCHANGED <<nodeVars, overlay_log, threadVars>>
        /\ last' = [NoOp EXCEPT !.op = "get", !.key = key_hash,
                        !.version = version, !.ok = (r.err = ""),
                        !.err = r.err, !.result = r.result]
        /\ prev' = Before
        /\ UNCHANGED <<touched, path>>
        /\ UNCHANGED <<db, adapterVars, spec_cache, roots>>

\* tree_->get_root_hash(version).
TreeGetRootHash(version) ==
    /\ nOps < MaxOps
    /\ \E r \in {tree_get_root_hash(PlainHandle(cache), db, version)} :
        /\ cache' = r.h.base
        /\ nOps' = nOps + 1
        /\ UNCHANGED <<nodeVars, overlay_log, threadVars>>
        /\ last' = [NoOp EXCEPT !.op = "get_root_hash",
                        !.version = version, !.ok = (r.err = ""),
                        !.err = r.err, !.new_root_hash = r.hash]
        /\ prev' = Before
        /\ UNCHANGED <<touched, path>>
        /\ UNCHANGED <<db, adapterVars, spec_cache, roots>>

Next ==
    \/ \E updates \in EngineUpdates, version \in WritableVersions,
          base \in BaseArgs :
           PutValueSet(updates, version, base)
    \/ \E key_hash \in KeyHashes, version \in Versions :
           TreeGet(key_hash, version)
    \/ \E version \in Versions : TreeGetRootHash(version)

Spec == Init /\ [][Next]_vars

(***************************************************************************)
(* Observations of a state of the tree, used by the properties.            *)
(***************************************************************************)
\* tree.get(key_hash, version) on the cache c and the store d.
GetAt(c, d, key_hash, version) ==
    tree_get(PlainHandle(c), d, key_hash, version).result

\* tree.get_root_hash(version) on the cache c and the store d.
RootAt(c, d, version) ==
    tree_get_root_hash(PlainHandle(c), d, version).hash

\* The last operation was a successful put_value_set.
PutDone == last.op = "put_value_set" /\ last.ok

\* The keys of an update list.
BatchKeys(batch) == {batch[i].key : i \in 1..Len(batch)}

\* put_value_set of the last operation, from the state before it, with
\* another list, version and cache.
Replay(c, updates, version) ==
    put_value_set(PlainHandle(c), prev.db, updates, version,
                  last.base_root, last.base_version)

(***************************************************************************)
(* Properties of put_value_set and get.                                    *)
(***************************************************************************)
\* C1: every permutation of an update list without duplicate keys gives
\* the same new_root_hash as the list itself, for any base tree and target
\* version.
C1_OrderIndependence ==
    (last.op = "put_value_set" /\ ~HasDuplicateKey(last.batch)) =>
        \A perm \in Perms(last.batch) :
            \E r \in {Replay(prev.cache, perm, last.version)} :
                r.ok = last.ok /\ r.new_root_hash = last.new_root_hash

\* A successful batch of two keys, passed in descending key order, on a
\* non-empty base tree.
C1_Witness ==
    /\ PutDone
    /\ Len(last.batch) = 2
    /\ KeyCmp(last.batch[1].key, last.batch[2].key) > 0
    /\ IsSome(last.base_version)
    /\ last.base_root # Some(ZeroHash)

C3_DeletedIsAbsent ==
    PutDone =>
        \A i \in 1..Len(last.batch) :
            ~IsSome(last.batch[i].value) =>
                GetAt(cache, db, last.batch[i].key, last.version) = None

\* A successful batch that deletes a key the base tree holds and a key it
\* does not hold.
C3_Witness ==
    /\ PutDone
    /\ IsSome(last.base_version)
    /\ \E i, j \in 1..Len(last.batch) :
           /\ ~IsSome(last.batch[i].value)
           /\ ~IsSome(last.batch[j].value)
           /\ IsSome(GetAt(prev.cache, prev.db, last.batch[i].key,
                           Val(last.base_version)))
           /\ ~IsSome(GetAt(prev.cache, prev.db, last.batch[j].key,
                            Val(last.base_version)))

\* The leaves of a node batch: the decoded entries that are Leaf nodes.
BatchLeaves(node_batch) ==
    {Val(deserialize_node_from_bytes(node_batch[i].bytes)) :
        i \in {j \in 1..Len(node_batch) :
                  node_batch[j].bytes[1] = 2}}

\* C4: after a successful put_value_set(U, v, base, bv), every key that is
\* not in U and that the base tree at bv holds has get(k, v) = get(k, bv),
\* also when a leaf split or a collapse moved its leaf.
C4_Frame ==
    (PutDone /\ IsSome(last.base_version) /\ IsSome(last.base_root)) =>
        \A k \in KeyHashes \ BatchKeys(last.batch) :
            \E before \in {GetAt(prev.cache, prev.db, k,
                                 Val(last.base_version))} :
                IsSome(before) =>
                    GetAt(cache, db, k, last.version) = before

\* A successful batch on a base tree holding a key that is not in the batch
\* and whose leaf the batch wrote again, at another place.
C4_Witness ==
    /\ PutDone
    /\ IsSome(last.base_version)
    /\ IsSome(last.base_root)
    /\ \E k \in KeyHashes \ BatchKeys(last.batch) :
           /\ IsSome(GetAt(prev.cache, prev.db, k, Val(last.base_version)))
           /\ \E leaf \in BatchLeaves(last.node_batch) :
                  leaf.account_key = k

\* C5: a successful write at version v' leaves get_root_hash(v) and
\* get(k, v), for every key k, as they were, for every version v < v'
\* written before; so they stay the same over any sequence of such writes.
C5_VersionedImmutability ==
    PutDone =>
        \A v \in DOMAIN roots :
            v < last.version =>
                /\ RootAt(cache, db, v) = RootAt(prev.cache, prev.db, v)
                /\ \A k \in KeyHashes :
                       GetAt(cache, db, k, v) = GetAt(prev.cache, prev.db, k, v)

\* A successful write atop an earlier version with a non-empty tree, that
\* changes a key this earlier version holds.
C5_Witness ==
    /\ PutDone
    /\ \E v \in DOMAIN roots :
           /\ v < last.version
           /\ last.base_version = Some(v)
           /\ roots[v] # ZeroHash
           /\ \E k \in BatchKeys(last.batch) :
                  /\ IsSome(GetAt(cache, db, k, v))
                  /\ GetAt(cache, db, k, v) # GetAt(cache, db, k, last.version)

\* C6 as stated: put_value_set with the same base tree and the same updates
\* returns the same new_root_hash whatever target version is passed.
C6_RootIgnoresVersion ==
    PutDone =>
        \A version \in Versions :
            Replay(prev.cache, last.batch, version).new_root_hash
                = last.new_root_hash

\* C6 amended: put_value_set with the same base tree, the same updates and
\* the same target version returns the same new_root_hash, whatever the
\* order of the update list and the contents of the cache.
C6_RootFunctionOfBaseUpdatesVersion ==
    (last.op = "put_value_set" /\ ~HasDuplicateKey(last.batch)) =>
        \A perm \in Perms(last.batch) :
            \E r \in {Replay(TreeCacheNew(AdapterCacheCapacity), perm,
                             last.version)} :
                r.ok = last.ok /\ r.new_root_hash = last.new_root_hash

\* A successful batch on a non-empty base tree, with nodes in the cache,
\* whose new_root_hash another target version would change.
C6_Witness ==
    /\ PutDone
    /\ IsSome(last.base_version)
    /\ TreeCacheSize(prev.cache) > 0
    /\ \E version \in Versions :
           Replay(prev.cache, last.batch, version).new_root_hash
               # last.new_root_hash

(***************************************************************************)
(* Batches of deletions of absent keys.                                    *)
(***************************************************************************)
\* The root node of the base tree of the last put_value_set, as the engine
\* loads it: absent without a base version and for an empty base tree.
BaseRootNode ==
    LoadBase(PlainHandle(prev.cache), prev.db, last.base_root,
             last.base_version).result

\* The root hash of the base tree: the all-zero hash of an empty base.
BaseRootHash ==
    IF IsSome(BaseRootNode) THEN hash_node(Val(BaseRootNode)) ELSE ZeroHash

\* get(k, base_version) on the base tree of the last put_value_set.
BaseGet(k) ==
    IF IsSome(last.base_version) /\ IsSome(last.base_root)
    THEN GetAt(prev.cache, prev.db, k, Val(last.base_version))
    ELSE None

\* The last operation was put_value_set with a non-empty batch, without
\* duplicate keys, made only of deletions of keys the base tree lacks.
DeletesOfAbsentKeys ==
    /\ last.op = "put_value_set"
    /\ Len(last.batch) > 0
    /\ ~HasDuplicateKey(last.batch)
    /\ \A i \in 1..Len(last.batch) :
           /\ ~IsSome(last.batch[i].value)
           /\ ~IsSome(BaseGet(last.batch[i].key))

RootKeyBytes(v) == NodeKeySerialize(NodeKey(v, NibblePathEmpty))

\* The entries of a node batch at NodeKey{v, empty path}.
RootEntries(node_batch, v) ==
    {i \in 1..Len(node_batch) :
        node_batch[i].key = NodeKey(v, NibblePathEmpty)}

\* The store holds at NodeKey{v, empty path} a node whose hash is the root
\* hash returned for v.
RootStored(v) ==
    /\ MapHas(db, RootKeyBytes(v))
    /\ \E node \in {deserialize_node_from_bytes(db[RootKeyBytes(v)])} :
           IsSome(node) /\ hash_node(Val(node)) = roots[v]

\* C17 as stated: after any sequence of successful put_value_set calls,
\* every written version v has exactly one node stored at
\* NodeKey{v, empty path}, the root of version v.
C17_RootExists ==
    /\ \A v \in DOMAIN roots : RootStored(v)
    /\ PutDone =>
           Cardinality(RootEntries(last.node_batch, last.version)) = 1

\* C17 amended: after any sequence of successful put_value_set calls,
\* every written version v whose tree is not empty has exactly one node
\* stored at NodeKey{v, empty path}, the root of version v; a written
\* version whose tree is empty (root hash all-zero) has no node there.
C17_RootExistsUnlessEmpty ==
    /\ \A v \in DOMAIN roots :
           IF roots[v] = ZeroHash THEN ~MapHas(db, RootKeyBytes(v))
           ELSE RootStored(v)
    /\ PutDone =>
           Cardinality(RootEntries(last.node_batch, last.version))
               = IF last.new_root_hash = ZeroHash THEN 0 ELSE 1

\* Two written versions: a non-empty tree whose root is Internal, then the
\* empty tree left by a batch that deletes every key.
C17_Witness ==
    /\ PutDone
    /\ last.new_root_hash = ZeroHash
    /\ IsSome(BaseRootNode)
    /\ IsInternal(Val(BaseRootNode))
    /\ \E v \in DOMAIN roots : v < last.version /\ RootStored(v)

(***************************************************************************)
(* The children of the Internal nodes that are emitted and stored.         *)
(***************************************************************************)
\* The Internal nodes of the store, each with its key.
StoredInternals ==
    {[key |-> Val(NodeKeyDeserialize(kb)),
      node |-> Val(deserialize_node_from_bytes(db[kb]))] :
        kb \in {b \in DOMAIN db : db[b][1] = 1}}

\* The Internal nodes of a node batch, each with its key.
BatchInternals(node_batch) ==
    {[key |-> node_batch[i].key,
      node |-> Val(deserialize_node_from_bytes(node_batch[i].bytes))] :
        i \in {j \in 1..Len(node_batch) : node_batch[j].bytes[1] = 1}}

\* The stored bytes of the child of the Internal e.node at nibble n.
ChildBytes(e, n) ==
    db[NodeKeySerialize(NodeKey(Val(get_child(e.node, n)).version,
                                push(e.key.nibble_path, n)))]

\* The only child of the Internal e.node is an Internal node.
OnlyChildIsInternal(e) == ChildBytes(e, OnlyNibble(e.node))[1] = 1

\* C18 as stated: every Internal node that put_value_set emits into a
\* node_batch, and hence every stored Internal node, has at least two
\* children, after any sequence of batches of upserts and deletions.
C18_AtLeastTwoChildren ==
    /\ \A e \in StoredInternals : Len(e.node.children) >= 2
    /\ PutDone =>
           \A e \in BatchInternals(last.node_batch) :
               Len(e.node.children) >= 2

\* C18 amended: every Internal node that put_value_set emits into a
\* node_batch, and hence every stored Internal node, has at least one
\* child, and the only child of an Internal with one child is an Internal
\* node, never a Leaf.
C18_NoSingleLeafChild ==
    /\ \A e \in StoredInternals :
           /\ Len(e.node.children) >= 1
           /\ Len(e.node.children) = 1 => OnlyChildIsInternal(e)
    /\ PutDone =>
           \A e \in BatchInternals(last.node_batch) :
               /\ Len(e.node.children) >= 1
               /\ Len(e.node.children) = 1 => OnlyChildIsInternal(e)

\* A batch with a deletion that leaves an Internal with one child, an
\* Internal, next to an Internal with two children.
C18_Witness ==
    /\ PutDone
    /\ \E i \in 1..Len(last.batch) : ~IsSome(last.batch[i].value)
    /\ \E e \in BatchInternals(last.node_batch) :
           Len(e.node.children) = 1 /\ OnlyChildIsInternal(e)
    /\ \E e \in StoredInternals :
           e.key.version = last.version /\ Len(e.node.children) = 2

(***************************************************************************)
(* The child descriptors of the stored Internal nodes.                     *)
(***************************************************************************)
\* The nibbles at which the Internal node has a child.
PresentNibbles(node) == {n \in 0..15 : exists(node.bitmap, n)}

\* The key the descriptor at nibble n of the Internal e.node names.
ChildKeyBytes(e, n) ==
    NodeKeySerialize(NodeKey(Val(get_child(e.node, n)).version,
                             push(e.key.nibble_path, n)))

\* The descriptor at nibble n of the Internal e.node names a stored node
\* whose hash is the hash of the descriptor.
ChildAddressed(e, n) ==
    /\ MapHas(db, ChildKeyBytes(e, n))
    /\ \E child \in {deserialize_node_from_bytes(db[ChildKeyBytes(e, n)])} :
           /\ IsSome(child)
           /\ hash_node(Val(child)) = Val(get_child(e.node, n)).hash

\* C23: after any sequence of successful batches, each child descriptor
\* {hash, origin_version} at nibble n of a stored Internal node at path p
\* names a node that was emitted at NodeKey{origin_version, p followed by
\* n}, whose hash is the descriptor's hash, also for leaves relocated by a
\* split or promoted by a collapse.
C23_ChildAddressing ==
    \A e \in StoredInternals :
        \A n \in PresentNibbles(e.node) : ChildAddressed(e, n)

\* A batch over a non-empty base that wrote an Internal with a child kept
\* from the base version next to a child of the new version, and that
\* wrote a Leaf of a key it does not hold at another place.
C23_Witness ==
    /\ PutDone
    /\ last.version > 1
    /\ \E e \in BatchInternals(last.node_batch) :
           \E n, m \in PresentNibbles(e.node) :
               /\ Val(get_child(e.node, n)).version = last.version
               /\ Val(get_child(e.node, m)).version < last.version
    /\ \E leaf \in BatchLeaves(last.node_batch) :
           leaf.account_key \notin BatchKeys(last.batch)

(***************************************************************************)
(* Copy-on-write.                                                          *)
(***************************************************************************)
\* C24: every entry of the node_batch returned by put_value_set(U,
\* version, ...) is keyed by NodeKey{version, path} with the target
\* version, no two entries share a path, and no node keyed at an earlier
\* version is written or overwritten by the call.
C24_CopyOnWrite ==
    PutDone =>
        /\ \A i \in 1..Len(last.node_batch) :
               last.node_batch[i].key.version = last.version
        /\ \A i, j \in 1..Len(last.node_batch) :
               i # j => last.node_batch[i].key.nibble_path
                            # last.node_batch[j].key.nibble_path
        /\ \A kb \in DOMAIN prev.db :
               MapHas(db, kb) /\ db[kb] = prev.db[kb]
        /\ \A kb \in DOMAIN db \ DOMAIN prev.db :
               Val(NodeKeyDeserialize(kb)).version = last.version

\* A batch over a non-empty base that rewrites the path of a stored node
\* of the base version, with three entries or more.
C24_Witness ==
    /\ PutDone
    /\ Len(last.node_batch) >= 3
    /\ IsSome(last.base_version)
    /\ \E i \in 1..Len(last.node_batch) :
           /\ last.node_batch[i].key.nibble_path.num_nibbles > 0
           /\ MapHas(prev.db,
                     NodeKeySerialize(
                         NodeKey(Val(last.base_version),
                                 last.node_batch[i].key.nibble_path)))

(***************************************************************************)
(* The collapse rule.                                                      *)
(***************************************************************************)
\* The keys the tree holds after the last put_value_set: those the batch
\* upserts, and those of the base tree that the batch does not name.
KeysAfter ==
    {k \in KeyHashes :
        IF k \in BatchKeys(last.batch)
        THEN \E i \in 1..Len(last.batch) :
                 last.batch[i].key = k /\ IsSome(last.batch[i].value)
        ELSE IsSome(BaseGet(k))}

\* The store holds a Leaf of key k at the empty path of version v.
SingleLeafRoot(v, k) ==
    /\ MapHas(db, RootKeyBytes(v))
    /\ db[RootKeyBytes(v)][1] = 2
    /\ Val(deserialize_node_from_bytes(db[RootKeyBytes(v)])).account_key = k

\* C25: in the tree of any version produced by put_value_set no Internal
\* node has zero children and none has exactly one child that is a Leaf;
\* a tree left with a single key is a single Leaf at the empty path, and
\* a tree left with no key is the empty tree with the all-zero root hash.
C25_CollapseRule ==
    /\ \A e \in StoredInternals :
           /\ PresentNibbles(e.node) # {}
           /\ Cardinality(PresentNibbles(e.node)) = 1 =>
                  \A n \in PresentNibbles(e.node) :
                      db[ChildKeyBytes(e, n)][1] = 1
    /\ PutDone =>
           /\ Cardinality(KeysAfter) = 1 =>
                  \A k \in KeysAfter : SingleLeafRoot(last.version, k)
           /\ KeysAfter = {} =>
                  /\ last.new_root_hash = ZeroHash
                  /\ ~MapHas(db, RootKeyBytes(last.version))

\* A batch that deletes from a base tree of two keys under one first
\* nibble: one deletion leaves a single Leaf at the empty path, two leave
\* the empty tree.
C25_Witness ==
    /\ PutDone
    /\ IsSome(BaseRootNode)
    /\ IsInternal(Val(BaseRootNode))
    /\ Cardinality(PresentNibbles(Val(BaseRootNode))) = 1
    /\ \E i \in 1..Len(last.batch) : ~IsSome(last.batch[i].value)
    /\ Cardinality(KeysAfter) = 1

(***************************************************************************)
(* The operations of the adapter and of the speculative overlay.           *)
(***************************************************************************)
\* The base arguments a caller of the adapter passes: base_root is a hash.
AdapterBaseArgs ==
    {[base_root |-> ZeroHash, base_version |-> None]}
    \cup {[base_root |-> roots[v], base_version |-> Some(v)] :
             v \in DOMAIN roots}
    \cup {[base_root |-> roots[v], base_version |-> None] :
             v \in DOMAIN roots}

\* The parent chains a caller supplies: none, or the node batch of the last
\* operation followed by a pair that does not decode.
ParentNodeArgs ==
    {None,
     Some([i \in 1..Len(last.node_batch) |->
              [node_key_bytes |-> NodeKeySerialize(last.node_batch[i].key),
               node_val_bytes |-> last.node_batch[i].bytes]]
          \o <<[node_key_bytes |-> <<>>, node_val_bytes |-> <<>>]>>)}

\* adapter.put(key, value_hash, version).
AdapterPut(key, value_hash, version) ==
    /\ nOps < MaxOps
    /\ pending_updates' = adapter_put(pending_updates, key, value_hash)
    /\ current_version' = version
    /\ nOps' = nOps + 1
    /\ UNCHANGED <<nodeVars, overlay_log, threadVars>>
    /\ last' = [NoOp EXCEPT !.op = "put", !.key = key, !.version = version]
    /\ prev' = Before
    /\ UNCHANGED <<touched, path>>
    /\ UNCHANGED <<db, cache, last_root, spec_cache, roots>>

\* adapter.calculate_root(updates, base_root, version, base_version).  An
\* empty batch returns at once; a failure of put_value_set surfaces to the
\* caller before the pending map is cleared; the caller persists the node
\* batch of a success.
CalculateRoot(updates, base, version, order) ==
    /\ nOps < MaxOps
    /\ \E r \in {calculate_root(cache, db, updates, base.base_root, version,
                                base.base_version, order)} :
        /\ cache' = r.h.base
        /\ db' = IF r.flushed THEN Persist(db, r.node_batch) ELSE db
        /\ pending_updates' = IF r.flushed THEN EmptyMap ELSE pending_updates
        /\ current_version' = IF r.flushed THEN version ELSE current_version
        /\ last_root' = IF r.flushed THEN r.new_root_hash ELSE last_root
        /\ roots' = IF r.flushed THEN MapSet(roots, version, r.new_root_hash)
                    ELSE roots
        /\ last' = [NoOp EXCEPT !.op = "calculate_root", !.updates = updates,
                        !.batch = r.batch, !.version = version,
                        !.base_root = Some(base.base_root),
                        !.base_version = base.base_version, !.ok = r.ok,
                        !.err = r.err, !.new_root_hash = r.new_root_hash,
                        !.node_batch = r.node_batch]
    /\ nOps' = nOps + 1
    /\ UNCHANGED <<nodeVars, overlay_log, threadVars>>
    /\ prev' = Before
    /\ UNCHANGED <<touched, path>>
    /\ UNCHANGED spec_cache

\* adapter.calculate_root_speculative(updates, base_root, version,
\* base_version, parent_nodes): the result is returned and nothing is
\* persisted.
CalculateRootSpeculative(updates, base, version, parent_nodes) ==
    /\ nOps < MaxOps
    /\ \E r \in {calculate_root_speculative(cache, db, updates,
                     base.base_root, version, base.base_version,
                     parent_nodes)} :
        /\ cache' = r.h.base
        /\ last' = [NoOp EXCEPT !.op = "calculate_root_speculative",
                        !.updates = updates, !.batch = r.batch,
                        !.version = version,
                        !.base_root = Some(base.base_root),
                        !.base_version = base.base_version, !.ok = r.ok,
                        !.err = r.err, !.new_root_hash = r.new_root_hash,
                        !.node_batch = r.node_batch,
                        !.parent_nodes = parent_nodes]
    /\ nOps' = nOps + 1
    /\ UNCHANGED <<nodeVars, overlay_log, threadVars>>
    /\ prev' = Before
    /\ UNCHANGED <<touched, path>>
    /\ UNCHANGED <<db, adapterVars, spec_cache, roots>>

\* adapter.update_batch_with_precomputed_hashes(updates, version, base_root,
\* base_version).
UpdateBatchWithPrecomputedHashes(updates, version, base) ==
    /\ nOps < MaxOps
    /\ \E r \in {update_batch_with_precomputed_hashes(cache, db, updates,
                     version, base.base_root, base.base_version)} :
        /\ cache' = r.h.base
        /\ db' = IF r.ok THEN Persist(db, r.node_batch) ELSE db
        /\ current_version' = IF r.ok THEN version ELSE current_version
        /\ last_root' = IF r.ok THEN r.new_root_hash ELSE last_root
        /\ roots' = IF r.ok THEN MapSet(roots, version, r.new_root_hash)
                    ELSE roots
        /\ last' = [NoOp EXCEPT !.op = "update_batch", !.updates = updates,
                        !.batch = ConvertUpdates(updates),
                        !.version = version, !.base_root = base.base_root,
                        !.base_version = base.base_version, !.ok = r.ok,
                        !.err = r.err, !.new_root_hash = r.new_root_hash,
                        !.node_batch = r.node_batch]
    /\ nOps' = nOps + 1
    /\ UNCHANGED <<nodeVars, overlay_log, threadVars>>
    /\ prev' = Before
    /\ UNCHANGED <<touched, path>>
    /\ UNCHANGED <<pending_updates, spec_cache>>

\* adapter.get(key, version).
AdapterGet(key, version) ==
    /\ nOps < MaxOps
    /\ \E r \in {adapter_get(cache, db, key, version)} :
        /\ cache' = r.h.base
        /\ last' = [NoOp EXCEPT !.op = "adapter_get", !.key = key,
                        !.version = version, !.ok = (r.err = ""),
                        !.err = r.err, !.result = r.result]
    /\ nOps' = nOps + 1
    /\ UNCHANGED <<nodeVars, overlay_log, threadVars>>
    /\ prev' = Before
    /\ UNCHANGED <<touched, path>>
    /\ UNCHANGED <<db, adapterVars, spec_cache, roots>>

\* adapter.get_root_hash(version).
AdapterGetRootHash(version) ==
    /\ nOps < MaxOps
    /\ \E r \in {adapter_get_root_hash(cache, db, current_version,
                                       last_root, version)} :
        /\ cache' = r.h.base
        /\ last' = [NoOp EXCEPT !.op = "adapter_get_root_hash",
                        !.version = version, !.ok = (r.err = ""),
                        !.err = r.err, !.new_root_hash = r.hash]
    /\ nOps' = nOps + 1
    /\ UNCHANGED <<nodeVars, overlay_log, threadVars>>
    /\ prev' = Before
    /\ UNCHANGED <<touched, path>>
    /\ UNCHANGED <<db, adapterVars, spec_cache, roots>>

\* The keys the overlay is used with: those of the base cache and of the
\* overlay, and one that neither holds.
OverlayKeys ==
    DOMAIN cache.cache_map \cup DOMAIN spec_cache.overlay
    \cup DOMAIN spec_cache.injected \cup {NodeKey(0, NibblePathEmpty)}

\* The nodes the overlay is given.
OverlayNodes == {LeafNode(Fill(1), Fill(1)), LeafNode(Fill(1), Fill(2))}

\* spec_cache.inject_node(key, node).
OverlayInject(key, node) ==
    /\ nOps < MaxOverlayOps
    /\ spec_cache' = inject_node(spec_cache, key, node)
    /\ overlay_log' = [overlay_log EXCEPT
                           !.injected = Logged(overlay_log.injected, key, node)]
    /\ nOps' = nOps + 1
    /\ UNCHANGED <<nodeVars, threadVars>>
    /\ last' = [NoOp EXCEPT !.op = "overlay_inject_node", !.key = key]
    /\ prev' = Before
    /\ UNCHANGED <<touched, path>>
    /\ UNCHANGED <<db, cache, adapterVars, roots>>

\* spec_cache.get(key).
OverlayGet(key) ==
    /\ nOps < MaxOverlayOps
    /\ \E r \in {SpeculativeGet(spec_cache, cache, key)} :
        /\ cache' = r.base
        /\ last' = [NoOp EXCEPT !.op = "overlay_get", !.key = key,
                        !.result = r.result]
    /\ nOps' = nOps + 1
    /\ UNCHANGED <<nodeVars, overlay_log, threadVars>>
    /\ prev' = Before
    /\ UNCHANGED <<touched, path>>
    /\ UNCHANGED <<db, adapterVars, spec_cache, roots>>

\* spec_cache.put(key, node).
OverlayPut(key, node) ==
    /\ nOps < MaxOverlayOps
    /\ spec_cache' = SpeculativePut(spec_cache, key, node)
    /\ overlay_log' = [overlay_log EXCEPT
                           !.put = Logged(overlay_log.put, key, node)]
    /\ nOps' = nOps + 1
    /\ UNCHANGED <<nodeVars, threadVars>>
    /\ last' = [NoOp EXCEPT !.op = "overlay_put", !.key = key]
    /\ prev' = Before
    /\ UNCHANGED <<touched, path>>
    /\ UNCHANGED <<db, cache, adapterVars, roots>>

\* spec_cache.clear().
OverlayClear ==
    /\ nOps < MaxOverlayOps
    /\ spec_cache' = SpeculativeClear(spec_cache)
    /\ overlay_log' = OverlayLogEmpty
    /\ nOps' = nOps + 1
    /\ UNCHANGED <<nodeVars, threadVars>>
    /\ last' = [NoOp EXCEPT !.op = "overlay_clear"]
    /\ prev' = Before
    /\ UNCHANGED <<touched, path>>
    /\ UNCHANGED <<db, cache, adapterVars, roots>>

NextAdapter ==
    \/ \E key \in RawKeys, value_hash \in Values, version \in Versions :
           AdapterPut(key, value_hash, version)
    \/ \E updates \in AdapterUpdates, base \in AdapterBaseArgs,
          version \in WritableVersions,
          order \in PendingOrders(pending_updates) :
           CalculateRoot(updates, base, version, order)
    \/ \E updates \in AdapterUpdates, base \in AdapterBaseArgs,
          version \in WritableVersions, parent_nodes \in ParentNodeArgs :
           CalculateRootSpeculative(updates, base, version, parent_nodes)
    \/ \E updates \in AdapterUpdates, base \in BaseArgs,
          version \in WritableVersions :
           UpdateBatchWithPrecomputedHashes(updates, version, base)
    \/ \E key \in RawKeys, version \in Versions : AdapterGet(key, version)
    \/ \E version \in Versions : AdapterGetRootHash(version)
    \/ \E key \in OverlayKeys, node \in OverlayNodes : OverlayInject(key, node)
    \/ \E key \in OverlayKeys : OverlayGet(key)
    \/ \E key \in OverlayKeys, node \in OverlayNodes : OverlayPut(key, node)
    \/ OverlayClear

SpecAdapter == Init /\ [][NextAdapter]_vars

(***************************************************************************)
(* Properties of the adapter and of the speculative overlay.               *)
(***************************************************************************)
\* The last operation was one on the overlay, or a speculative root.
OverlayOpDone ==
    last.op \in {"overlay_inject_node", "overlay_get", "overlay_put",
                 "overlay_clear", "calculate_root_speculative"}

\* C7: from any adapter state and for any updates, base_root, version and
\* base_version, calculate_root_speculative returns the new_root_hash that
\* calculate_root returns from that same state.
C7_SpeculativeEquivalence ==
    last.op = "calculate_root_speculative" =>
        \A order \in PendingOrders(prev.pending_updates) :
            \E r \in {calculate_root(prev.cache, prev.db, last.updates,
                          Val(last.base_root), last.version,
                          last.base_version, order)} :
                r.ok = last.ok /\ r.new_root_hash = last.new_root_hash

\* The last operation was a calculate_root that ran put_value_set with
\* success.
FlushDone ==
    last.op = "calculate_root" /\ last.ok /\ Len(last.batch) > 0

C20_FlushPostcondition ==
    (last.op = "calculate_root" /\ last.ok) =>
        /\ pending_updates = EmptyMap
        /\ current_version = last.version
        /\ last_root = last.new_root_hash

\* C36: the batch that XookAdapter::calculate_root hands to put_value_set
\* never contains the same key hash twice, for any pending map and any
\* extra updates: a key that is both pending and in the updates, or that
\* occurs twice in the updates, is merged into one entry, so a flush never
\* fails with DuplicateKey because of the merge.
C36_MergedBatchHasNoDuplicate ==
    last.op = "calculate_root" =>
        /\ \A i, j \in 1..Len(last.batch) :
               last.batch[i].key = last.batch[j].key => i = j
        /\ last.err # "DuplicateKey"

\* C37: after any sequence of put, calculate_root,
\* calculate_root_speculative and update_batch_with_precomputed_hashes,
\* XookAdapter::get_root_hash(v) equals the root hash of the tree at
\* version v, the all-zero hash when v was never written; after
\* put(key, value_hash, v) with no flush yet, get_root_hash(v) does not
\* return the root of an earlier version.
C37_RootQueryConsistent ==
    last.op = "adapter_get_root_hash" /\ last.ok =>
        last.new_root_hash
            = IF MapHas(roots, last.version) THEN roots[last.version]
              ELSE ZeroHash

\* C8: no get, put, clear or inject_node on a SpeculativeTreeCache and no
\* calculate_root_speculative adds, removes or replaces an entry of the
\* base cache: its key-to-node map and its size are as before.
C8_BaseContentsUntouched ==
    OverlayOpDone =>
        /\ cache.cache_map = prev.cache.cache_map
        /\ TreeCacheSize(cache) = TreeCacheSize(prev.cache)

\* A successful speculative root on a non-empty base tree, with a parent
\* chain and a non-empty base cache, that created nodes.
C8_Witness ==
    /\ last.op = "calculate_root_speculative"
    /\ last.ok
    /\ IsSome(last.base_version)
    /\ IsSome(last.parent_nodes)
    /\ Len(last.node_batch) > 1
    /\ TreeCacheSize(prev.cache) > 0

\* C28: SpeculativeTreeCache::get(k) returns the node last put for k on the
\* overlay if there is one, otherwise the node last injected for k,
\* otherwise what the base cache returns for k, absent when the base has
\* none; a put after an inject of the same key, and a put or an inject for
\* a key the base also holds, shadow the other sources.
C28_OverlayResolutionOrder ==
    last.op = "overlay_get" =>
        last.result
            = IF last.key \in DOMAIN overlay_log.put
              THEN Some(overlay_log.put[last.key])
              ELSE IF last.key \in DOMAIN overlay_log.injected
              THEN Some(overlay_log.injected[last.key])
              ELSE TreeCacheGet(prev.cache, last.key).result

\* A get of a key that the base cache holds, that was injected and then put
\* with another node.
C28_Witness ==
    /\ last.op = "overlay_get"
    /\ MapHas(prev.cache.cache_map, last.key)
    /\ last.key \in DOMAIN overlay_log.put
    /\ last.key \in DOMAIN overlay_log.injected
    /\ overlay_log.put[last.key] # overlay_log.injected[last.key]
    /\ last.result = Some(overlay_log.put[last.key])
    /\ last.result # TreeCacheGet(prev.cache, last.key).result

\* C9: no operation on a SpeculativeTreeCache changes the recency order of
\* the base cache, so the next put of a new key into the base cache evicts
\* the key it would have evicted without the overlay operation.
C9_BaseRecencyUntouched ==
    OverlayOpDone =>
        /\ cache.lru_list = prev.cache.lru_list
        /\ \A node \in OverlayNodes :
               TreeCachePut(cache, NodeKey(0, NibblePathEmpty), node).cache_map
                   = TreeCachePut(prev.cache, NodeKey(0, NibblePathEmpty),
                                  node).cache_map

(***************************************************************************)
(* A TreeCache of capacity c >= 1 used on its own.  touched records, for  *)
(* each key, the step at which it was inserted and the step of its last    *)
(* put or successful get; it is kept beside the cache and never read by    *)
(* it.                                                                     *)
(***************************************************************************)
CacheKeys == {NodeKey(v, NibblePathEmpty) : v \in 0..(NumCacheKeys - 1)}

CacheNodes == {LeafNode(Fill(1), Fill(i)) : i \in 1..NumVals}

\* The process has not stopped.
Alive == last.err # "crash"

\* The cache c and nothing else.
InitCacheOf(c) ==
    /\ cache = c
    /\ db = EmptyMap
    /\ pending_updates = EmptyMap
    /\ current_version = 0
    /\ last_root = ZeroHash
    /\ spec_cache = SpeculativeTreeCacheNew
    /\ roots = EmptyMap
    /\ nOps = 0
    /\ last = NoOp
    /\ touched = EmptyMap
    /\ prev = [db |-> EmptyMap, cache |-> cache,
               pending_updates |-> EmptyMap, current_version |-> 0,
               last_root |-> ZeroHash,
               spec_cache |-> SpeculativeTreeCacheNew, touched |-> EmptyMap,
               path |-> NibblePathEmpty,
               internal |-> InternalNodeEmpty]
    /\ path = NibblePathEmpty
    /\ internal = InternalNodeEmpty
    /\ set_calls = <<>>
    /\ overlay_log = OverlayLogEmpty
    /\ ThreadsInit

InitCache ==
    \E capacity \in 1..MaxCapacity : InitCacheOf(TreeCacheNew(capacity))

\* A TreeCache of any capacity, 0 included.
InitCacheAny ==
    \E capacity \in 0..MaxCapacity : InitCacheOf(TreeCacheNew(capacity))

\* put takes the eviction branch and reads lru_list_.back() of an empty
\* list.
PutUndefined(c, key) ==
    /\ ~MapHas(c.cache_map, key)
    /\ MapSize(c.cache_map) >= c.capacity
    /\ Len(c.lru_list) = 0

\* The key has been put or found now; node is the node last put for it.
Touch(key, node) ==
    MapSet(touched, key,
           [ins |-> IF MapHas(cache.cache_map, key) /\ MapHas(touched, key)
                    THEN touched[key].ins ELSE nOps + 1,
            time |-> nOps + 1,
            node |-> node])

\* cache.get(key).
TreeCacheGetOp(key) ==
    /\ Alive /\ nOps < MaxCacheOps
    /\ \E r \in {TreeCacheGet(cache, key)} :
        /\ cache' = r.cache
        /\ touched' = IF IsSome(r.result)
                       THEN Touch(key, touched[key].node) ELSE touched
        /\ last' = [NoOp EXCEPT !.op = "cache_get", !.key = key,
                        !.result = r.result]
    /\ nOps' = nOps + 1
    /\ UNCHANGED <<nodeVars, overlay_log, threadVars>>
    /\ prev' = Before
    /\ UNCHANGED <<db, adapterVars, spec_cache, roots, path>>

\* cache.put(key, node).
TreeCachePutOp(key, node) ==
    /\ Alive /\ nOps < MaxCacheOps
    /\ IF PutUndefined(cache, key)
       THEN \/ /\ cache' = cache
               /\ touched' = touched
               /\ last' = [NoOp EXCEPT !.op = "cache_put", !.key = key,
                               !.node = Some(node), !.ok = FALSE,
                               !.err = "crash"]
            \/ /\ cache' = [cache EXCEPT
                                !.lru_list = <<key>>,
                                !.cache_map = MapSet(cache.cache_map, key,
                                                     node)]
               /\ touched' = Touch(key, node)
               /\ last' = [NoOp EXCEPT !.op = "cache_put", !.key = key,
                               !.node = Some(node), !.err = "undefined"]
       ELSE /\ cache' = TreeCachePut(cache, key, node)
            /\ touched' = Touch(key, node)
            /\ last' = [NoOp EXCEPT !.op = "cache_put", !.key = key,
                            !.node = Some(node)]
    /\ nOps' = nOps + 1
    /\ UNCHANGED <<nodeVars, overlay_log, threadVars>>
    /\ prev' = Before
    /\ UNCHANGED <<db, adapterVars, spec_cache, roots, path>>

\* cache.clear().
TreeCacheClearOp ==
    /\ Alive /\ nOps < MaxCacheOps
    /\ cache' = TreeCacheClear(cache)
    /\ last' = [NoOp EXCEPT !.op = "cache_clear"]
    /\ nOps' = nOps + 1
    /\ UNCHANGED <<nodeVars, overlay_log, threadVars>>
    /\ prev' = Before
    /\ UNCHANGED <<db, adapterVars, spec_cache, roots, touched, path>>

\* cache.size().
TreeCacheSizeOp ==
    /\ Alive /\ nOps < MaxCacheOps
    /\ last' = [NoOp EXCEPT !.op = "cache_size",
                    !.result = Some(TreeCacheSize(cache))]
    /\ nOps' = nOps + 1
    /\ UNCHANGED <<nodeVars, overlay_log, threadVars>>
    /\ prev' = Before
    /\ UNCHANGED <<db, cache, adapterVars, spec_cache, roots, touched, path>>

NextCache ==
    \/ \E key \in CacheKeys : TreeCacheGetOp(key)
    \/ \E key \in CacheKeys, node \in CacheNodes : TreeCachePutOp(key, node)
    \/ TreeCacheClearOp
    \/ TreeCacheSizeOp

SpecCache == InitCache /\ [][NextCache]_vars

SpecCacheAny == InitCacheAny /\ [][NextCache]_vars

\* The keys the cache held before the last operation.
HeldBefore == DOMAIN prev.cache.cache_map

\* The last operation put a key the cache did not hold into a full cache.
EvictingPut ==
    /\ last.op = "cache_put"
    /\ last.key \notin HeldBefore
    /\ MapSize(prev.cache.cache_map) = prev.cache.capacity

\* The held key whose last put or successful get is the oldest.
LeastRecentlyTouched ==
    CHOOSE k \in HeldBefore :
        \A o \in HeldBefore : prev.touched[k].time <= prev.touched[o].time

\* C10: a put of a new key into a full TreeCache of capacity c >= 1 removes
\* exactly one entry, the key least recently touched by a put or a
\* successful get, and keeps every other entry; no get and no other put
\* removes an entry.
C10_LRUEviction ==
    /\ EvictingPut =>
           /\ DOMAIN cache.cache_map
                  = (HeldBefore \ {LeastRecentlyTouched}) \cup {last.key}
           /\ \A k \in HeldBefore \ {LeastRecentlyTouched} :
                  cache.cache_map[k] = prev.cache.cache_map[k]
           /\ cache.cache_map[last.key] = Val(last.node)
    /\ last.op = "cache_put" /\ ~EvictingPut =>
           DOMAIN cache.cache_map = HeldBefore \cup {last.key}
    /\ last.op = "cache_get" => cache.cache_map = prev.cache.cache_map
    /\ last.op \in {"cache_put", "cache_get"} =>
           TreeCacheSize(cache) <= cache.capacity

\* Capacity 2: the key inserted first was read before the insert of a
\* third key, so the key inserted second was evicted and the first stays.
C10_Witness ==
    /\ EvictingPut
    /\ cache.capacity = 2
    /\ \E k \in DOMAIN cache.cache_map \ {last.key} :
           /\ prev.touched[k].ins < prev.touched[LeastRecentlyTouched].ins
           /\ prev.touched[k].time > prev.touched[LeastRecentlyTouched].time

\* The last put took the eviction branch.
EvictionBranch ==
    /\ last.op = "cache_put"
    /\ last.key \notin HeldBefore
    /\ MapSize(prev.cache.cache_map) >= prev.cache.capacity

\* C35: for every capacity including 0, whenever TreeCache::put takes the
\* eviction branch the recency list is non-empty, so put on a cache of
\* capacity 0 completes without reading the back of an empty list and
\* leaves size() <= capacity.
C35_EvictionOnNonEmptyList ==
    /\ EvictionBranch => Len(prev.cache.lru_list) > 0
    /\ last.op = "cache_put" =>
           /\ last.ok
           /\ last.err = ""
           /\ TreeCacheSize(cache) <= cache.capacity

\* The keys of the recency list.
ListKeys(list) == {list[i] : i \in 1..Len(list)}

\* C34: for a TreeCache of capacity c >= 1, after any sequence of get, put
\* and clear, size() <= c, the recency list holds exactly the keys of the
\* map with no key twice, a get of a present key returns the node last put
\* for it, a get of an absent key changes nothing, a put of a present key
\* replaces its node without changing size() or evicting, and after clear
\* size() is 0 and every get is absent.
C34_LruStructure ==
    /\ TreeCacheSize(cache) <= cache.capacity
    /\ ListKeys(cache.lru_list) = DOMAIN cache.cache_map
    /\ Len(cache.lru_list) = Cardinality(DOMAIN cache.cache_map)
    /\ TreeCacheSize(cache) = Cardinality(DOMAIN cache.cache_map)
    /\ last.op = "cache_get" /\ last.key \in HeldBefore =>
           last.result = Some(prev.touched[last.key].node)
    /\ last.op = "cache_get" /\ last.key \notin HeldBefore =>
           /\ last.result = None
           /\ cache = prev.cache
    /\ last.op = "cache_put" /\ last.key \in HeldBefore =>
           /\ cache.cache_map[last.key] = Val(last.node)
           /\ DOMAIN cache.cache_map = HeldBefore
           /\ TreeCacheSize(cache) = TreeCacheSize(prev.cache)
    /\ last.op = "cache_clear" =>
           /\ TreeCacheSize(cache) = 0
           /\ \A k \in CacheKeys : TreeCacheGet(cache, k).result = None
    /\ last.op = "cache_size" =>
           last.result = Some(Cardinality(DOMAIN prev.cache.cache_map))

\* A put into a full cache of capacity 2 that replaces the node of a key
\* it holds with another node.
C34_Witness ==
    /\ last.op = "cache_put"
    /\ cache.capacity = 2
    /\ TreeCacheSize(prev.cache) = 2
    /\ last.key \in HeldBefore
    /\ prev.cache.cache_map[last.key] # Val(last.node)
    /\ cache.cache_map[last.key] = Val(last.node)
    /\ TreeCacheSize(cache) = 2

(***************************************************************************)
(* The node codec on its own: nodes built by set_child, leaves, and byte   *)
(* strings handed to the decoder.                                          *)
(***************************************************************************)
SerdeHashes == {Fill(1), Fill(2)}

\* Origin versions of one, one and two bytes.
SerdeVersions == {0, 1, 300}

SerdeNibbles == {0, 3, 15}

\* The set_child calls a node is built by.
SetChildCalls ==
    SeqUpTo([nibble : SerdeNibbles, hash : SerdeHashes,
             version : SerdeVersions], MaxSetChild)

RECURSIVE Built(_, _)
\* The Internal after the first n of the calls, from an empty node.
Built(calls, n) ==
    IF n = 0 THEN InternalNodeEmpty
    ELSE set_child(Built(calls, n - 1), calls[n].nibble, calls[n].hash,
                   calls[n].version)

SerdeInternals == {Built(calls, Len(calls)) : calls \in SetChildCalls}

SerdeLeaves == {LeafNode(a, b) : a, b \in SerdeHashes}

SerdeNodes == SerdeInternals \cup SerdeLeaves

\* The bytes of short arbitrary inputs.
FrameBytes == 0..3

\* The inputs of the decoder: short arbitrary strings, framed nodes, and
\* framed nodes with a byte appended or the last byte removed.
DecoderInputs ==
    LET framed == {serialize_node_with_prefix(n) : n \in SerdeNodes}
    IN  SeqUpTo(FrameBytes, MaxFrameLen) \cup framed
        \cup {Append(b, x) : b \in framed, x \in {0, 255}}
        \cup {SubSeq(b, 1, Len(b) - 1) : b \in framed}

\* deserialize_node_from_bytes(bytes).
Deserialize(bytes) ==
    /\ nOps < MaxSerdeOps
    /\ nOps' = nOps + 1
    /\ UNCHANGED <<nodeVars, overlay_log, threadVars>>
    /\ last' = [NoOp EXCEPT !.op = "deserialize", !.bytes = bytes,
                    !.result = deserialize_node_from_bytes(bytes)]
    /\ UNCHANGED <<db, cache, adapterVars, spec_cache, roots, prev,
                   touched, path>>

\* C11: every byte string the decoder accepts is rejected with one byte
\* appended and with its last byte removed; the empty input and every
\* input whose first byte is neither 1 nor 2 are rejected.
C11_StrictFraming ==
    last.op = "deserialize" =>
        /\ IsSome(last.result) =>
               /\ \A x \in Byte :
                      deserialize_node_from_bytes(Append(last.bytes, x))
                          = None
               /\ deserialize_node_from_bytes(
                      SubSeq(last.bytes, 1, Len(last.bytes) - 1)) = None
        /\ Len(last.bytes) = 0 => last.result = None
        /\ Len(last.bytes) > 0 /\ last.bytes[1] \notin {1, 2} =>
               last.result = None

\* An accepted Internal with a child.
C11_Witness ==
    /\ last.op = "deserialize"
    /\ IsSome(last.result)
    /\ IsInternal(Val(last.result))
    /\ Len(Val(last.result).children) > 0

\* serialize_node_with_prefix(node).
SerializeWithPrefix(node) ==
    /\ nOps < MaxSerdeOps
    /\ nOps' = nOps + 1
    /\ UNCHANGED <<nodeVars, overlay_log, threadVars>>
    /\ last' = [NoOp EXCEPT !.op = "serialize", !.node = Some(node),
                    !.bytes = serialize_node_with_prefix(node)]
    /\ UNCHANGED <<db, cache, adapterVars, spec_cache, roots, prev,
                   touched, path>>

\* C12: the framed bytes of any node, a Leaf or an Internal built by
\* set_child, decode to a node equal to it: same kind, mask, child hashes
\* and origin versions in the same positions, or same key and value hash.
C12_NodeRoundTrip ==
    last.op = "serialize" =>
        \E d \in {deserialize_node_from_bytes(last.bytes)} :
            /\ IsSome(d)
            /\ Val(d) = Val(last.node)
            /\ Val(d).kind = Val(last.node).kind
            /\ Val(d).bitmap = Val(last.node).bitmap
            /\ Val(d).children = Val(last.node).children
            /\ Val(d).account_key = Val(last.node).account_key
            /\ Val(d).value_hash = Val(last.node).value_hash

\* An Internal with two children, one with a two-byte origin version, one
\* set a second time, was framed.
C12_Witness ==
    /\ last.op = "serialize"
    /\ IsInternal(Val(last.node))
    /\ Len(Val(last.node).children) = 2
    /\ \E i \in 1..2 : Val(last.node).children[i].version = 300

\* hash_node(node): bytes is the buffer handed to the hash function.
HashNode(node) ==
    /\ nOps < MaxSerdeOps
    /\ nOps' = nOps + 1
    /\ UNCHANGED <<nodeVars, overlay_log, threadVars>>
    /\ last' = [NoOp EXCEPT !.op = "hash_node", !.node = Some(node),
                    !.bytes = IF IsInternal(node)
                              THEN InternalFinalBuffer(
                                       InternalSerializeCanonical(node))
                              ELSE LeafFinalBuffer(
                                       LeafSerializeCanonical(node)),
                    !.result = Some(hash_node(node))]
    /\ UNCHANGED <<db, cache, adapterVars, spec_cache, roots, prev,
                   touched, path>>

\* Canonical payloads: those of the nodes, and short arbitrary strings.
HashPayloads ==
    {serialize_node(n) : n \in SerdeNodes}
    \cup SeqUpTo(FrameBytes, MaxFrameLen)

\* C14: the buffer hashed for an Internal node is never the buffer hashed
\* for a Leaf node, whatever the two canonical encodings are, also when
\* they are byte-identical.
C14_DomainSeparation ==
    last.op = "hash_node" =>
        \E own \in {serialize_node(Val(last.node))} :
            IF IsInternal(Val(last.node))
            THEN /\ last.bytes # LeafFinalBuffer(own)
                 /\ \A q \in HashPayloads : last.bytes # LeafFinalBuffer(q)
            ELSE /\ last.bytes # InternalFinalBuffer(own)
                 /\ \A q \in HashPayloads :
                        last.bytes # InternalFinalBuffer(q)

\* A Leaf was hashed, and an Internal with children exists among the nodes
\* it is compared with.
C14_Witness ==
    /\ last.op = "hash_node"
    /\ IsLeaf(Val(last.node))
    /\ IsSome(last.result)
    /\ \E n \in SerdeInternals : Len(n.children) = 2

NextSerde ==
    \/ \E bytes \in DecoderInputs : Deserialize(bytes)
    \/ \E node \in SerdeNodes : SerializeWithPrefix(node)
    \/ \E node \in SerdeNodes : HashNode(node)

SpecSerde == Init /\ [][NextSerde]_vars

(***************************************************************************)
(* A NibblePath object on its own: constructed by from_binary or           *)
(* from_bytes, then changed by push and pop.  bytes_.back() and            *)
(* bytes_.pop_back() on an empty vector are undefined: the build may       *)
(* stop, may write outside the buffer and leave the vector as it is, or    *)
(* (pop_back) may leave a vector whose size and contents are garbage.      *)
(***************************************************************************)
PathByteVals == {0, 171, 255}

PathByteSeqs == SeqUpTo(PathByteVals, MaxPathBytes)

\* The nibbles pushed: three valid ones and one that is too large.
PathNibbles == {0, 9, 15, 16}

\* The record of a path operation.
PathOp(op) == [NoOp EXCEPT !.op = op]

\* The process stops in the middle of the operation.
Crash(op) ==
    /\ last' = [PathOp(op) EXCEPT !.ok = FALSE, !.err = "crash"]
    /\ path' = path

\* NibblePath::from_binary(key).
PathFromBinary(key) ==
    /\ Alive /\ nOps < MaxPathOps
    /\ path' = from_binary(key)
    /\ last' = [PathOp("from_binary") EXCEPT !.bytes = key]
    /\ nOps' = nOps + 1
    /\ UNCHANGED <<nodeVars, overlay_log, threadVars>>
    /\ prev' = Before
    /\ UNCHANGED <<db, cache, adapterVars, spec_cache, roots, touched>>

\* NibblePath::from_bytes(bytes, num_nibbles).
PathFromBytes(bytes, num_nibbles) ==
    /\ Alive /\ nOps < MaxPathOps
    /\ path' = from_bytes(bytes, num_nibbles)
    /\ last' = [PathOp("from_bytes") EXCEPT !.bytes = bytes,
                                            !.nibble = num_nibbles]
    /\ nOps' = nOps + 1
    /\ UNCHANGED <<nodeVars, overlay_log, threadVars>>
    /\ prev' = Before
    /\ UNCHANGED <<db, cache, adapterVars, spec_cache, roots, touched>>

\* push reads bytes_.back() of an empty vector.
PushUndefined(p) == p.num_nibbles % 2 = 1 /\ Len(p.bytes) = 0

\* A push without the range check of the nibble.
PathPushNoRangeCheck(nibble) ==
    /\ Alive /\ nOps < MaxPathOps
    /\ IF PushUndefined(path)
       THEN \/ Crash("push")
            \/ /\ path' = [path EXCEPT !.num_nibbles = @ + 1]
               /\ last' = [PathOp("push") EXCEPT !.nibble = nibble,
                               !.err = "undefined"]
       ELSE /\ path' = push(path, nibble)
            /\ last' = [PathOp("push") EXCEPT !.nibble = nibble]
    /\ nOps' = nOps + 1
    /\ UNCHANGED <<nodeVars, overlay_log, threadVars>>
    /\ prev' = Before
    /\ UNCHANGED <<db, cache, adapterVars, spec_cache, roots, touched>>

\* path.push(nibble).
PathPush(nibble) ==
    /\ Alive /\ nOps < MaxPathOps
    /\ IF nibble > 15
       THEN /\ path' = path
            /\ last' = [PathOp("push") EXCEPT !.nibble = nibble,
                            !.ok = FALSE, !.err = "invalid_argument"]
       ELSE IF PushUndefined(path)
       THEN \/ Crash("push")
            \/ /\ path' = [path EXCEPT !.num_nibbles = @ + 1]
               /\ last' = [PathOp("push") EXCEPT !.nibble = nibble,
                               !.err = "undefined"]
       ELSE /\ path' = push(path, nibble)
            /\ last' = [PathOp("push") EXCEPT !.nibble = nibble]
    /\ nOps' = nOps + 1
    /\ UNCHANGED <<nodeVars, overlay_log, threadVars>>
    /\ prev' = Before
    /\ UNCHANGED <<db, cache, adapterVars, spec_cache, roots, touched>>

\* pop writes bytes_.back() of an empty vector.
PopBackUndefined(p) ==
    p.num_nibbles > 0 /\ p.num_nibbles % 2 = 0 /\ Len(p.bytes) = 0

\* pop calls bytes_.pop_back() on an empty vector.
PopPopBackUndefined(p) == p.num_nibbles % 2 = 1 /\ Len(p.bytes) = 0

\* path.pop().
PathPop ==
    /\ Alive /\ nOps < MaxPathOps
    /\ IF PopBackUndefined(path)
       THEN \/ Crash("pop")
            \/ /\ path' = [path EXCEPT !.num_nibbles = @ - 1]
               /\ last' = [PathOp("pop") EXCEPT !.err = "undefined"]
       ELSE IF PopPopBackUndefined(path)
       THEN \/ Crash("pop")
            \/ \E garbage \in PathByteSeqs :
                   /\ path' = [bytes |-> garbage,
                               num_nibbles |-> path.num_nibbles - 1]
                   /\ last' = [PathOp("pop") EXCEPT !.err = "undefined"]
       ELSE /\ path' = pop(path)
            /\ last' = PathOp("pop")
    /\ nOps' = nOps + 1
    /\ UNCHANGED <<nodeVars, overlay_log, threadVars>>
    /\ prev' = Before
    /\ UNCHANGED <<db, cache, adapterVars, spec_cache, roots, touched>>

\* get_nibble reads bytes_[index / 2] past the end of the vector.
GetNibbleUndefined(p, index) == index \div 2 >= Len(p.bytes)

\* path.get_nibble(index).
PathGetNibble(index) ==
    /\ Alive /\ nOps < MaxPathOps
    /\ IF index >= path.num_nibbles
       THEN last' = [PathOp("get_nibble") EXCEPT !.version = index,
                         !.ok = FALSE, !.err = "out_of_range"]
       ELSE IF GetNibbleUndefined(path, index)
       THEN \/ last' = [PathOp("get_nibble") EXCEPT !.version = index,
                            !.ok = FALSE, !.err = "crash"]
            \/ \E garbage \in 0..15 :
                   last' = [PathOp("get_nibble") EXCEPT !.version = index,
                                !.nibble = garbage, !.err = "undefined"]
       ELSE last' = [PathOp("get_nibble") EXCEPT !.version = index,
                         !.nibble = get_nibble(path, index)]
    /\ nOps' = nOps + 1
    /\ UNCHANGED <<nodeVars, overlay_log, threadVars>>
    /\ prev' = Before
    /\ UNCHANGED <<db, cache, adapterVars, spec_cache, roots, touched, path>>

\* The versions of the keys made of the path: one, two and three bytes
\* of the version field are in use.
KeyVersions == {1, 300, 65536}

\* The keys a key is compared with.
OtherKeys ==
    {NodeKey(v, q) :
        v \in {1, 300},
        q \in {NibblePathEmpty, from_binary(<<171>>), from_binary(<<0, 255>>)}}

\* NodeKey{version, path}.serialize() and NodeKey::deserialize of the
\* bytes.
KeyRoundTrip(version) ==
    /\ Alive /\ nOps < MaxPathOps
    /\ \E bytes \in {NodeKeySerialize(NodeKey(version, path))} :
           last' = [PathOp("key_round_trip") EXCEPT
                        !.version = version, !.bytes = bytes,
                        !.result = NodeKeyDeserialize(bytes)]
    /\ nOps' = nOps + 1
    /\ UNCHANGED <<nodeVars, overlay_log, threadVars>>
    /\ prev' = Before
    /\ UNCHANGED <<db, cache, adapterVars, spec_cache, roots, touched, path>>

\* NodeKey{version, path} <=> other.
KeyCompare(version, other) ==
    /\ Alive /\ nOps < MaxPathOps
    /\ last' = [PathOp("key_compare") EXCEPT
                    !.version = version, !.node = Some(other),
                    !.nibble = NodeKeyCmp(NodeKey(version, path), other)]
    /\ nOps' = nOps + 1
    /\ UNCHANGED <<nodeVars, overlay_log, threadVars>>
    /\ prev' = Before
    /\ UNCHANGED <<db, cache, adapterVars, spec_cache, roots, touched, path>>

NextPath ==
    \/ \E key \in PathByteSeqs : PathFromBinary(key)
    \/ \E bytes \in PathByteSeqs, num_nibbles \in 0..MaxPathNibbles :
           PathFromBytes(bytes, num_nibbles)
    \/ \E nibble \in PathNibbles : PathPush(nibble)
    \/ PathPop
    \/ \E version \in KeyVersions : KeyRoundTrip(version)
    \/ \E version \in KeyVersions, other \in OtherKeys :
           KeyCompare(version, other)
    \/ \E index \in 0..MaxPathNibbles : PathGetNibble(index)

SpecPath == Init /\ [][NextPath]_vars

\* The path reads back from its packed bytes and its size, and the unused
\* low nibble of an odd-length path is zero.
RoundTrips(p) ==
    /\ from_bytes(p.bytes, p.num_nibbles) = p
    /\ p.num_nibbles % 2 = 1 /\ Len(p.bytes) > 0 =>
           p.bytes[Len(p.bytes)] % 16 = 0

\* C13: every path P reachable by from_binary, from_bytes, push and pop
\* satisfies from_bytes(P.bytes(), P.size()) == P, and the low nibble of
\* the last packed byte of an odd-length P is zero.
C13_PathRoundTrip == RoundTrips(path)

\* C31: for any path obtained from from_binary, from_bytes with any bytes
\* and any nibble count, push or pop, get_nibble(i) returns a value in
\* 0..15 read from inside the packed bytes when i < size(), and fails with
\* an out-of-range error when i >= size(); it never reads past the packed
\* bytes.
C31_IndexedReadTotal ==
    last.op = "get_nibble" =>
        IF last.version < path.num_nibbles
        THEN /\ last.version \div 2 < Len(path.bytes)
             /\ last.ok
             /\ last.err = ""
             /\ last.nibble \in 0..15
        ELSE /\ ~last.ok
             /\ last.err = "out_of_range"

\* C22: for every NodeKey k, NodeKey::deserialize(k.serialize()) succeeds
\* and equals k, serialize writing 8 little-endian version bytes, 4
\* little-endian nibble-count bytes and ceil(nibbles/2) packed path bytes;
\* and NodeKeys are ordered by version first, then by path.
C22_NodeKeyRoundTrip ==
    /\ last.op = "key_round_trip" =>
           /\ last.result = Some(NodeKey(last.version, path))
           /\ Len(last.bytes) = 12 + (path.num_nibbles + 1) \div 2
           /\ SubSeq(last.bytes, 1, 8) = LE(last.version, 8)
           /\ SubSeq(last.bytes, 9, 12) = LE(path.num_nibbles, 4)
    /\ last.op = "key_compare" =>
           \E other \in {Val(last.node)} :
               /\ last.version < other.version => last.nibble < 0
               /\ last.version > other.version => last.nibble > 0
               /\ last.version = other.version =>
                      last.nibble = NibblePathCmp(path, other.nibble_path)

(***************************************************************************)
(* The adapter restarted over a store that holds version 1, written by an  *)
(* earlier run: the cache is empty, and the store has all the nodes of     *)
(* version 1, or has lost one of them, or returns cut bytes for one.       *)
(***************************************************************************)
\* The batches of the earlier run: one value for one or two distinct keys.
EarlierBatches ==
    {<<[key |-> Blake3(k), value |-> Some(HashToBytes(Fill(1)))]>> :
        k \in RawKeys}
    \cup {<<[key |-> Blake3(ks[1]), value |-> Some(HashToBytes(Fill(1)))],
            [key |-> Blake3(ks[2]), value |-> Some(HashToBytes(Fill(1)))]>> :
             ks \in {q \in RawKeys \X RawKeys : q[1] # q[2]}}

\* The stores a reader may present for the intact store.
DamagedStores(store) ==
    {store}
    \cup {MapErase(store, kb) : kb \in DOMAIN store}
    \cup {MapSet(store, kb, SubSeq(store[kb], 1, Len(store[kb]) - 1)) :
             kb \in DOMAIN store}

InitFaulty ==
    /\ \E batch \in EarlierBatches :
        \E r \in {put_value_set(
                      PlainHandle(TreeCacheNew(AdapterCacheCapacity)),
                      EmptyMap, batch, 1, None, None)} :
            /\ db \in DamagedStores(Persist(EmptyMap, r.node_batch))
            /\ roots = MapSet(EmptyMap, 1, r.new_root_hash)
    /\ cache = TreeCacheNew(AdapterCacheCapacity)
    /\ pending_updates = EmptyMap
    /\ current_version = 0
    /\ last_root = ZeroHash
    /\ spec_cache = SpeculativeTreeCacheNew
    /\ nOps = 0
    /\ last = NoOp
    /\ touched = EmptyMap
    /\ path = NibblePathEmpty
    /\ internal = InternalNodeEmpty
    /\ set_calls = <<>>
    /\ overlay_log = OverlayLogEmpty
    /\ ThreadsInit
    /\ prev = [db |-> db, cache |-> cache, pending_updates |-> EmptyMap,
               current_version |-> 0, last_root |-> ZeroHash,
               spec_cache |-> SpeculativeTreeCacheNew, touched |-> EmptyMap,
               path |-> NibblePathEmpty,
               internal |-> InternalNodeEmpty]

\* The updates of the restarted run: one new value.
FaultyUpdates ==
    {u \in AdapterUpdates : \A i \in 1..Len(u) : u[i].value_hash = Fill(2)}

NextFaulty ==
    \/ \E key \in RawKeys, version \in Versions :
           AdapterPut(key, Fill(2), version)
    \/ \E updates \in FaultyUpdates, base \in AdapterBaseArgs,
          version \in WritableVersions,
          order \in PendingOrders(pending_updates) :
           CalculateRoot(updates, base, version, order)

SpecFaulty == InitFaulty /\ [][NextFaulty]_vars

\* The last operation was a calculate_root whose put_value_set failed.
FlushFailed == last.op = "calculate_root" /\ ~last.ok

\* C15: when put_value_set fails, no node batch is returned, no node
\* created by the failed call remains visible (the node cache holds no
\* entry keyed at the call's version that it did not hold before), and
\* the adapter's pending map, cached root and cached version are as
\* before.
C15_NoPartialState ==
    FlushFailed =>
        /\ last.node_batch = <<>>
        /\ \A k \in DOMAIN cache.cache_map \ DOMAIN prev.cache.cache_map :
               k.version # last.version
        /\ pending_updates = prev.pending_updates
        /\ last_root = prev.last_root
        /\ current_version = prev.current_version

(***************************************************************************)
(* XMTLegacyAdapter: the older accumulator, over jmt::JellyfishMerkleTree. *)
(* Hash256 is scaled to HashLen bytes, as Hash is.  The engine behind it   *)
(* is an external collaborator: what it returns is any root or value.      *)
(***************************************************************************)
\* The conversion of a raw key to key_hash in XMTLegacyAdapter: the first
\* HashLen bytes of a long key, a short key padded with zero bytes.
LegacyKeyHash(key) ==
    [i \in 1..HashLen |-> IF i <= Len(key) THEN key[i] ELSE 0]

\* XMTLegacyAdapter::put: the pending map afterwards.
legacy_put(pending, key, value_hash) ==
    MapSet(pending, LegacyKeyHash(key), HashToBytes(value_hash))

\* The loop of XMTLegacyAdapter::calculate_root over the explicit updates.
LegacyConvertUpdates(updates) ==
    [i \in 1..Len(updates) |->
        [key |-> LegacyKeyHash(updates[i].key),
         value |-> Some(HashToBytes(updates[i].value_hash))]]

\* The raw keys of every length up to MaxLegacyKeyLen, shorter than,
\* as long as and longer than a hash: the empty key and the keys of the
\* bytes 0 and 1 that start with 1.
LegacyRawKeys ==
    {k \in SeqUpTo({0, 1}, MaxLegacyKeyLen) : Len(k) > 0 => k[1] = 1}

\* The update lists passed to calculate_root: no update, one, or two of
\* different raw keys, the shorter key first.
LegacyUpdates ==
    {u \in SeqUpTo([key : LegacyRawKeys, value_hash : {Fill(1)}], 2) :
        Len(u) = 2 =>
            /\ u[1].key # u[2].key
            /\ Len(u[1].key) <= Len(u[2].key)}

\* What the engine may return as a root.
LegacyRoots == {ZeroHash, Fill(1)}

\* A behaviour works on one adapter object: a XookAdapter or an
\* XMTLegacyAdapter.
OnXook == last.op \in {"none", "put", "calculate_root"}

OnLegacy ==
    last.op \in {"none", "legacy_put", "legacy_calculate_root", "legacy_get"}

\* XookAdapter::put, on a raw key of any length.
PutAnyKey(key, value_hash, version) ==
    /\ OnXook
    /\ nOps < MaxLegacyOps
    /\ AdapterPut(key, value_hash, version)

\* XookAdapter::calculate_root on raw keys of any length over the empty
\* tree.
CalculateRootAnyKey(updates, version, order) ==
    /\ OnXook
    /\ nOps < MaxLegacyOps
    /\ CalculateRoot(updates, [base_root |-> ZeroHash, base_version |-> None],
                     version, order)

\* XMTLegacyAdapter::put(key, value_hash, version).
LegacyPut(key, value_hash, version) ==
    /\ OnLegacy
    /\ nOps < MaxLegacyOps
    /\ pending_updates' = legacy_put(pending_updates, key, value_hash)
    /\ current_version' = version
    /\ nOps' = nOps + 1
    /\ UNCHANGED <<nodeVars, overlay_log, threadVars>>
    /\ last' = [NoOp EXCEPT !.op = "legacy_put", !.key = key,
                    !.version = version]
    /\ prev' = Before
    /\ UNCHANGED <<db, cache, last_root, spec_cache, roots, touched, path>>

\* XMTLegacyAdapter::calculate_root(updates, base_root, version): an empty
\* batch returns base_root at once; otherwise the engine returns a root,
\* the pending map is cleared and the cached version and root are set.
LegacyCalculateRoot(updates, base_root, version, order, root) ==
    /\ OnLegacy
    /\ nOps < MaxLegacyOps
    /\ \E batch \in {LegacyConvertUpdates(updates) \o order} :
        /\ pending_updates' = IF Len(batch) = 0 THEN pending_updates
                              ELSE EmptyMap
        /\ current_version' = IF Len(batch) = 0 THEN current_version
                              ELSE version
        /\ last_root' = IF Len(batch) = 0 THEN last_root ELSE root
        /\ last' = [NoOp EXCEPT !.op = "legacy_calculate_root",
                        !.updates = updates, !.batch = batch,
                        !.version = version, !.base_root = Some(base_root),
                        !.new_root_hash =
                            IF Len(batch) = 0 THEN base_root ELSE root]
    /\ nOps' = nOps + 1
    /\ UNCHANGED <<nodeVars, overlay_log, threadVars>>
    /\ prev' = Before
    /\ UNCHANGED <<db, cache, spec_cache, roots, touched, path>>

\* XMTLegacyAdapter::get(key, version): the engine is asked for key_hash
\* and returns nothing or value bytes, converted to a hash.
LegacyGet(key, version, found) ==
    /\ OnLegacy
    /\ nOps < MaxLegacyOps
    /\ nOps' = nOps + 1
    /\ UNCHANGED <<nodeVars, overlay_log, threadVars>>
    /\ last' = [NoOp EXCEPT !.op = "legacy_get", !.key = key,
                    !.version = version, !.bytes = LegacyKeyHash(key),
                    !.result = IF IsSome(found)
                               THEN Some(BytesToHash(Val(found))) ELSE None]
    /\ prev' = Before
    /\ UNCHANGED <<db, cache, adapterVars, spec_cache, roots, touched, path>>

NextLegacy ==
    \/ \E key \in LegacyRawKeys, version \in Versions :
           PutAnyKey(key, Fill(1), version)
    \/ \E updates \in LegacyUpdates, version \in WritableVersions,
          order \in PendingOrders(pending_updates) :
           CalculateRootAnyKey(updates, version, order)
    \/ \E key \in LegacyRawKeys, version \in Versions :
           LegacyPut(key, Fill(1), version)
    \/ \E updates \in LegacyUpdates, base_root \in LegacyRoots,
          version \in Versions, order \in PendingOrders(pending_updates),
          root \in LegacyRoots :
           LegacyCalculateRoot(updates, base_root, version, order, root)
    \/ \E key \in LegacyRawKeys, version \in Versions,
          found \in {None, Some(HashToBytes(Fill(1)))} :
           LegacyGet(key, version, found)

SpecLegacy == Init /\ [][NextLegacy]_vars

\* The last operation was a put into an empty pending map.
FirstPut(op) == last.op = op /\ prev.pending_updates = EmptyMap

\* The keys of the list updates are pairwise different where the raw keys
\* are.
DistinctTreeKeys(updates, batch) ==
    \A i, j \in 1..Len(updates) :
        updates[i].key # updates[j].key => batch[i].key # batch[j].key

\* C21: in XookAdapter and in XMTLegacyAdapter, put and calculate_root map
\* a raw key to its tree key by hashing the whole raw key: the pending
\* entry a put writes, and the batch entry calculate_root builds, differ
\* from those of every different raw key of any length; get asks the tree
\* for the key put writes.
C21_KeyDerivationHashes ==
    /\ FirstPut("put") =>
           \A other \in LegacyRawKeys \ {last.key} :
               DOMAIN adapter_put(EmptyMap, other, Fill(1))
                   # DOMAIN pending_updates
    /\ FirstPut("legacy_put") =>
           \A other \in LegacyRawKeys \ {last.key} :
               DOMAIN legacy_put(EmptyMap, other, Fill(1))
                   # DOMAIN pending_updates
    /\ last.op \in {"calculate_root", "legacy_calculate_root"} =>
           DistinctTreeKeys(last.updates, last.batch)
    /\ last.op = "legacy_get" =>
           \A other \in LegacyRawKeys \ {last.key} :
               LegacyKeyHash(other) # last.bytes

(***************************************************************************)
(* An InternalNode object on its own: default-constructed, then changed by *)
(* set_child, read by get_child and serialized.                            *)
(***************************************************************************)
NodeNibbles == {0, 3, 15}

NodeHashes == {Fill(1), Fill(2)}

NodeVersions == {1, 300}

\* internal.set_child(nibble, hash, version).
SetChild(nibble, hash, version) ==
    /\ nOps < MaxNodeOps
    /\ internal' = set_child(internal, nibble, hash, version)
    /\ set_calls' = Append(set_calls, [nibble |-> nibble, hash |-> hash,
                                       version |-> version])
    /\ last' = [NoOp EXCEPT !.op = "set_child", !.nibble = nibble,
                    !.version = version]
    /\ nOps' = nOps + 1
    /\ prev' = Before
    /\ UNCHANGED <<db, cache, adapterVars, spec_cache, roots, touched, path,
                   overlay_log, threadVars>>

\* internal.get_child(nibble).
GetChild(nibble) ==
    /\ nOps < MaxNodeOps
    /\ last' = [NoOp EXCEPT !.op = "get_child", !.nibble = nibble,
                    !.result = get_child(internal, nibble)]
    /\ nOps' = nOps + 1
    /\ prev' = Before
    /\ UNCHANGED <<db, cache, adapterVars, spec_cache, roots, touched, path,
                   nodeVars, overlay_log, threadVars>>

\* internal.serialize_canonical() and internal.hash().
SerializeCanonical ==
    /\ nOps < MaxNodeOps
    /\ last' = [NoOp EXCEPT !.op = "serialize_canonical",
                    !.bytes = InternalSerializeCanonical(internal),
                    !.new_root_hash = hash_node(internal)]
    /\ nOps' = nOps + 1
    /\ prev' = Before
    /\ UNCHANGED <<db, cache, adapterVars, spec_cache, roots, touched, path,
                   nodeVars, overlay_log, threadVars>>

NextNode ==
    \/ \E nibble \in NodeNibbles, hash \in NodeHashes,
          version \in NodeVersions :
           SetChild(nibble, hash, version)
    \/ \E nibble \in 0..15 : GetChild(nibble)
    \/ SerializeCanonical

SpecNode == Init /\ [][NextNode]_vars

\* The nibbles set by the calls made.
SetNibbles == {set_calls[i].nibble : i \in 1..Len(set_calls)}

\* The descriptor last set for the nibble n, which was set.
LastSet(n) ==
    LET i == CHOOSE i \in 1..Len(set_calls) :
                 /\ set_calls[i].nibble = n
                 /\ \A j \in (i + 1)..Len(set_calls) : set_calls[j].nibble # n
    IN  [hash |-> set_calls[i].hash, version |-> set_calls[i].version]

\* Bit n of the mask is set.
MaskBit(mask, n) == (mask \div (2 ^ n)) % 2 = 1

\* C26: after any sequence of set_child calls with nibbles in 0..15 from an
\* empty node, the number of stored children is popcount(mask), bit n of
\* the mask is set exactly for the nibbles that were set, the descriptor of
\* each present nibble n sits at the dense index popcount(mask &
\* ((1<<n)-1)), get_child(n) returns the descriptor last set for n and
\* absence for a nibble never set, and a set_child on nibble n leaves the
\* descriptors of all other nibbles unchanged.
C26_SparseChildMap ==
    /\ Len(internal.children)
           = Cardinality({n \in 0..15 : MaskBit(internal.bitmap, n)})
    /\ \A n \in 0..15 : MaskBit(internal.bitmap, n) <=> n \in SetNibbles
    /\ \A n \in SetNibbles :
           internal.children[Cardinality({m \in SetNibbles : m < n}) + 1]
               = LastSet(n)
    /\ \A n \in 0..15 :
           get_child(internal, n)
               = IF n \in SetNibbles THEN Some(LastSet(n)) ELSE None
    /\ last.op = "set_child" =>
           \A n \in (0..15) \ {last.nibble} :
               get_child(internal, n) = get_child(prev.internal, n)

\* Three calls: a nibble, a lower nibble that is inserted before it, and
\* the first nibble set again with another descriptor.
C26_Witness ==
    /\ last.op = "set_child"
    /\ Len(set_calls) = 3
    /\ set_calls[2].nibble < set_calls[1].nibble
    /\ set_calls[3].nibble = set_calls[1].nibble
    /\ set_calls[3].hash # set_calls[1].hash

RECURSIVE BuiltInOrder(_, _)
\* The node built from an empty node by one set_child for each of the
\* nibbles order[1..n], with the descriptor last set for it.
BuiltInOrder(order, n) ==
    IF n = 0 THEN InternalNodeEmpty
    ELSE set_child(BuiltInOrder(order, n - 1), order[n],
                   LastSet(order[n]).hash, LastSet(order[n]).version)

\* The nibbles that were set, in every order.
SetOrders ==
    {q \in [1..Cardinality(SetNibbles) -> SetNibbles] :
        \A i, j \in DOMAIN q : q[i] = q[j] => i = j}

RECURSIVE ChildRecords(_)
\* The child records of the nibbles of S in ascending nibble order: hash,
\* then 8 little-endian version bytes.
ChildRecords(S) ==
    IF S = {} THEN <<>>
    ELSE LET n == CHOOSE n \in S : \A m \in S : n <= m
         IN  LastSet(n).hash \o LE(LastSet(n).version, 8)
             \o ChildRecords(S \ {n})

NextPushPop ==
    \/ \E nibble \in PathNibbles : PathPush(nibble)
    \/ PathPop
    \/ \E index \in 0..MaxPathNibbles : PathGetNibble(index)

SpecPushPop == Init /\ [][NextPushPop]_vars

\* The nibbles of the path below the index n are those of the path q.
SameNibblesBelow(p, q, n) ==
    \A i \in 0..(n - 1) : get_nibble(p, i) = get_nibble(q, i)

\* C29: for any path P built from the empty path by push and pop and any
\* nibble n in 0..15, push(n) followed by pop() yields a path equal to P;
\* after every operation the packed byte count is ceil(size/2),
\* get(size-1) after push(n) returns n, and all earlier nibbles are
\* unchanged.
C29_PushPopInverse ==
    /\ Len(path.bytes) = (path.num_nibbles + 1) \div 2
    /\ \A n \in 0..15 :
           \E pushed \in {push(path, n)} :
               /\ pop(pushed) = path
               /\ Len(pushed.bytes) = (pushed.num_nibbles + 1) \div 2
               /\ pushed.num_nibbles = path.num_nibbles + 1
               /\ get_nibble(pushed, pushed.num_nibbles - 1) = n
               /\ SameNibblesBelow(pushed, path, path.num_nibbles)
    /\ last.op = "push" /\ last.ok =>
           /\ path.num_nibbles = prev.path.num_nibbles + 1
           /\ get_nibble(path, path.num_nibbles - 1) = last.nibble
           /\ SameNibblesBelow(path, prev.path, prev.path.num_nibbles)
    /\ last.op = "pop" /\ prev.path.num_nibbles > 0 =>
           /\ path.num_nibbles = prev.path.num_nibbles - 1
           /\ SameNibblesBelow(path, prev.path, path.num_nibbles)
    /\ last.op = "get_nibble" /\ last.version < path.num_nibbles =>
           /\ last.ok
           /\ last.nibble = get_nibble(path, last.version)

\* A pop that takes a nonzero low nibble out of the second position, after
\* the push that put it there.
C29_Witness ==
    /\ last.op = "pop"
    /\ prev.path.num_nibbles = 2
    /\ prev.path.bytes[1] % 16 # 0
    /\ path.num_nibbles = 1
    /\ path.bytes = <<(prev.path.bytes[1] \div 16) * 16>>

\* C30: push of a value greater than 15 fails with an invalid-argument
\* error and leaves the size and the packed bytes of the path as they
\* were; pop on the empty path changes nothing and does not fail.
C30_RejectedLeavesPath ==
    /\ last.op = "push" /\ last.nibble > 15 =>
           /\ ~last.ok
           /\ last.err = "invalid_argument"
           /\ path.num_nibbles = prev.path.num_nibbles
           /\ path.bytes = prev.path.bytes
    /\ last.op = "pop" /\ prev.path.num_nibbles = 0 =>
           /\ last.ok
           /\ last.err = ""
           /\ path = prev.path

\* A rejected push on a path of odd size, whose last byte a push would
\* change.
C30_Witness ==
    /\ last.op = "push"
    /\ last.nibble > 15
    /\ ~last.ok
    /\ prev.path.num_nibbles % 2 = 1
    /\ Len(prev.path.bytes) > 0
    /\ path = prev.path

\* A pop on the empty path.
C30_WitnessPop ==
    /\ last.op = "pop"
    /\ prev.path.num_nibbles = 0
    /\ path = NibblePathEmpty

(***************************************************************************)
(* The adapter after a first flush: calculate_root of one key at version   *)
(* 1 on a new adapter, its node batch persisted.  Then the operations of   *)
(* the adapter and its root query.                                         *)
(***************************************************************************)
InitFlushed ==
    /\ \E key \in RawKeys :
        \E r \in {calculate_root(TreeCacheNew(AdapterCacheCapacity),
                      EmptyMap, <<[key |-> key, value_hash |-> Fill(1)]>>,
                      ZeroHash, 1, None, <<>>)} :
            /\ db = Persist(EmptyMap, r.node_batch)
            /\ cache = r.h.base
            /\ last_root = r.new_root_hash
            /\ roots = MapSet(EmptyMap, 1, r.new_root_hash)
    /\ pending_updates = EmptyMap
    /\ current_version = 1
    /\ spec_cache = SpeculativeTreeCacheNew
    /\ nOps = 0
    /\ last = NoOp
    /\ touched = EmptyMap
    /\ path = NibblePathEmpty
    /\ internal = InternalNodeEmpty
    /\ set_calls = <<>>
    /\ overlay_log = OverlayLogEmpty
    /\ ThreadsInit
    /\ prev = [db |-> db, cache |-> cache, pending_updates |-> EmptyMap,
               current_version |-> 1, last_root |-> last_root,
               spec_cache |-> SpeculativeTreeCacheNew, touched |-> EmptyMap,
               path |-> NibblePathEmpty,
               internal |-> InternalNodeEmpty]

\* The updates of the later calls: at most one, of a new value.
QueryUpdates ==
    {u \in AdapterUpdates :
        Len(u) <= 1 /\ \A i \in 1..Len(u) : u[i].value_hash = Fill(2)}

NextRootQuery ==
    \/ \E key \in RawKeys, value_hash \in {Fill(2)}, version \in Versions :
           AdapterPut(key, value_hash, version)
    \/ \E updates \in QueryUpdates, base \in AdapterBaseArgs,
          version \in WritableVersions,
          order \in PendingOrders(pending_updates) :
           CalculateRoot(updates, base, version, order)
    \/ \E updates \in QueryUpdates, base \in AdapterBaseArgs,
          version \in WritableVersions, parent_nodes \in {None} :
           CalculateRootSpeculative(updates, base, version, parent_nodes)
    \/ \E updates \in QueryUpdates, base \in BaseArgs,
          version \in WritableVersions :
           UpdateBatchWithPrecomputedHashes(updates, version, base)
    \/ \E version \in Versions : AdapterGetRootHash(version)

SpecRootQuery == InitFlushed /\ [][NextRootQuery]_vars

(***************************************************************************)
(* One TreeCache called by several threads.  A call takes mutex_, runs its *)
(* body in steps (the lookup, then the change of list and map) and         *)
(* releases mutex_ when it returns.                                        *)
(***************************************************************************)
\* A get that takes the lock in shared mode, as size does.
LockModeGetShared(op) ==
    IF op \in {"size", "get"} THEN "shared" ELSE "exclusive"

\* The lock a call takes: std::unique_lock in get, put and clear,
\* std::shared_lock in size.
LockMode(op) == IF op = "size" THEN "shared" ELSE "exclusive"

\* The lock can be taken in the mode without waiting.
CanLock(m, mode) ==
    IF mode = "exclusive" THEN m.owner = None /\ m.shared = {}
    ELSE m.owner = None

MutexLock(m, t, mode) ==
    IF mode = "exclusive" THEN [m EXCEPT !.owner = Some(t)]
    ELSE [m EXCEPT !.shared = @ \cup {t}]

MutexUnlock(m, t, mode) ==
    IF mode = "exclusive" THEN [m EXCEPT !.owner = None]
    ELSE [m EXCEPT !.shared = @ \ {t}]

\* The call run whole on the cache c: [cache, result].
SerialCall(c, op, key, node) ==
    IF op = "get" THEN TreeCacheGet(c, key)
    ELSE IF op = "put"
    THEN [cache |-> TreeCachePut(c, key, Val(node)), result |-> None]
    ELSE IF op = "clear" THEN [cache |-> TreeCacheClear(c), result |-> None]
    ELSE [cache |-> c, result |-> Some(TreeCacheSize(c))]

\* The keys and the calls of the threads.
ThreadKeys == {NodeKey(v, NibblePathEmpty) : v \in 0..1}

ThreadCallArgs ==
    {[op |-> "get", key |-> k, node |-> None] : k \in ThreadKeys}
    \cup {[op |-> "put", key |-> k, node |-> Some(n)] :
             k \in ThreadKeys, n \in CacheNodes}
    \cup {[op |-> "clear", key |-> <<>>, node |-> None],
          [op |-> "size", key |-> <<>>, node |-> None]}

\* The thread t calls cache.get, put, clear or size.
ThreadCall(t, call) ==
    /\ nOps < MaxThreadCalls
    /\ threads[t].pc = "idle"
    /\ threads' = [threads EXCEPT ![t] =
                       [IdleThread EXCEPT !.pc = "lock", !.op = call.op,
                                          !.key = call.key,
                                          !.node = call.node]]
    /\ nOps' = nOps + 1
    /\ UNCHANGED <<db, cache, adapterVars, spec_cache, roots, last, prev,
                   touched, path, nodeVars, overlay_log, mutex, serial,
                   overlays>>

\* The lock constructor of the call returns: t holds mutex_.
ThreadLock(t) ==
    /\ threads[t].pc = "lock"
    /\ CanLock(mutex, LockMode(threads[t].op))
    /\ mutex' = MutexLock(mutex, t, LockMode(threads[t].op))
    /\ \E r \in {SerialCall(serial, threads[t].op, threads[t].key,
                            threads[t].node)} :
        /\ serial' = r.cache
        /\ threads' = [threads EXCEPT
               ![t].expected = r.result,
               ![t].pc = IF threads[t].op \in {"get", "put"} THEN "find"
                         ELSE IF threads[t].op = "clear" THEN "clear"
                         ELSE "read"]
    /\ UNCHANGED <<db, cache, adapterVars, spec_cache, roots, nOps, last,
                   prev, touched, path, nodeVars, overlay_log, overlays>>

\* it = cache_map_.find(key) of get and put; get returns nullopt when the
\* key is absent.
ThreadFind(t) ==
    /\ threads[t].pc = "find"
    /\ \E found \in {MapHas(cache.cache_map, threads[t].key)} :
        threads' = [threads EXCEPT
            ![t].found = found,
            ![t].pc = IF threads[t].op = "get" /\ ~found THEN "unlock"
                      ELSE "update"]
    /\ UNCHANGED <<db, cache, adapterVars, spec_cache, roots, nOps, last,
                   prev, touched, path, nodeVars, overlay_log, mutex, serial,
                   overlays>>

\* The rest of get and put: the splice to the front and the node read or
\* replaced, or the eviction and the insert of a new key.
ThreadUpdate(t) ==
    /\ threads[t].pc = "update"
    /\ LET key == threads[t].key
           spliced == [cache EXCEPT
                           !.lru_list = SpliceToFront(cache.lru_list, key)]
       IN  IF threads[t].op = "get"
           THEN /\ cache' = spliced
                /\ threads' = [threads EXCEPT
                       ![t].result = IF MapHas(cache.cache_map, key)
                                     THEN Some(cache.cache_map[key])
                                     ELSE None,
                       ![t].pc = "unlock"]
           ELSE /\ cache' = IF threads[t].found
                            THEN [spliced EXCEPT
                                     !.cache_map = MapSet(cache.cache_map,
                                         key, Val(threads[t].node))]
                            ELSE LET e == TreeCacheEvict(cache)
                                 IN  [e EXCEPT
                                         !.lru_list = <<key>> \o e.lru_list,
                                         !.cache_map = MapSet(e.cache_map,
                                             key, Val(threads[t].node))]
                /\ threads' = [threads EXCEPT ![t].pc = "unlock"]
    /\ UNCHANGED <<db, adapterVars, spec_cache, roots, nOps, last, prev,
                   touched, path, nodeVars, overlay_log, mutex, serial,
                   overlays>>

\* The body of clear.
ThreadClear(t) ==
    /\ threads[t].pc = "clear"
    /\ cache' = TreeCacheClear(cache)
    /\ threads' = [threads EXCEPT ![t].pc = "unlock"]
    /\ UNCHANGED <<db, adapterVars, spec_cache, roots, nOps, last, prev,
                   touched, path, nodeVars, overlay_log, mutex, serial,
                   overlays>>

\* The body of size.
ThreadSize(t) ==
    /\ threads[t].pc = "read"
    /\ threads' = [threads EXCEPT
                       ![t].result = Some(TreeCacheSize(cache)),
                       ![t].pc = "unlock"]
    /\ UNCHANGED <<db, cache, adapterVars, spec_cache, roots, nOps, last,
                   prev, touched, path, nodeVars, overlay_log, mutex, serial,
                   overlays>>

\* The call returns and its lock object releases mutex_.
ThreadUnlock(t) ==
    /\ threads[t].pc = "unlock"
    /\ mutex' = MutexUnlock(mutex, t, LockMode(threads[t].op))
    /\ threads' = [threads EXCEPT ![t].pc = "idle"]
    /\ UNCHANGED <<db, cache, adapterVars, spec_cache, roots, nOps, last,
                   prev, touched, path, nodeVars, overlay_log, serial,
                   overlays>>

NextThreads ==
    \/ \E t \in Threads, call \in ThreadCallArgs : ThreadCall(t, call)
    \/ \E t \in Threads : ThreadLock(t)
    \/ \E t \in Threads : ThreadFind(t)
    \/ \E t \in Threads : ThreadUpdate(t)
    \/ \E t \in Threads : ThreadClear(t)
    \/ \E t \in Threads : ThreadSize(t)
    \/ \E t \in Threads : ThreadUnlock(t)

SpecThreads == InitCache /\ [][NextThreads]_vars

\* The thread is between the lock and the unlock of its call.
InSection(t) ==
    threads[t].pc \in {"find", "update", "clear", "read", "unlock"}

\* The thread is inside a get, a put or a clear.
Writing(t) == InSection(t) /\ threads[t].op # "size"

\* C32: under any interleaving of get, put, clear and size called on one
\* TreeCache by several threads, get, put and clear each run under the
\* exclusive lock (no two of them, and no size call, overlap with one of
\* them), size runs under the shared lock, and every reachable state is
\* one reachable by running the same calls in some sequential order.
C32_LockDiscipline ==
    /\ \A t \in Threads :
           Writing(t) =>
               /\ mutex.owner = Some(t)
               /\ mutex.shared = {}
               /\ \A u \in Threads \ {t} : ~InSection(u)
    /\ \A t \in Threads :
           InSection(t) /\ threads[t].op = "size" =>
               /\ t \in mutex.shared
               /\ mutex.owner = None
    /\ (\A t \in Threads : ~Writing(t)) => cache = serial
    /\ \A t \in Threads :
           threads[t].pc = "idle" /\ threads[t].op # "none" =>
               threads[t].result = threads[t].expected

\* A put is between its lookup and its insert while another thread that
\* called get waits for the lock.
C32_Witness ==
    \E t, u \in Threads :
        /\ threads[t].pc = "update"
        /\ threads[t].op = "put"
        /\ threads[u].pc = "lock"
        /\ threads[u].op = "get"
        /\ threads[u].key = threads[t].key
        /\ ~CanLock(mutex, "exclusive")

\* Two size calls hold the lock in shared mode at once.
C32_WitnessShared ==
    \E t, u \in Threads :
        /\ t # u
        /\ threads[t].pc = "read"
        /\ threads[u].pc = "read"
        /\ mutex.shared = {t, u}

(***************************************************************************)
(* Two threads, each with a SpeculativeTreeCache of its own over the same  *)
(* base cache.  inject_node, put and clear touch the thread's overlay      *)
(* only; get looks into the overlay and then calls get on the base cache,  *)
(* which takes the lock of the base.                                       *)
(***************************************************************************)
\* Every thread uses one overlay.
OwnOverlayShared(t) == 1

\* The overlay the thread t constructed for its computation.
OwnOverlay(t) == t

\* The part of SpeculativeTreeCache::get before the call of the base:
\* overlay_, then injected_.
OverlayLookup(sc, key) ==
    IF MapHas(sc.overlay, key) THEN Some(sc.overlay[key])
    ELSE IF MapHas(sc.injected, key) THEN Some(sc.injected[key])
    ELSE None

\* The node the base holds when the overlays are made, and the node that is
\* injected.
BaseNode == LeafNode(Fill(2), Fill(1))

InjectedNode == LeafNode(Fill(2), Fill(2))

\* A base cache that holds a node for the first of the keys.
InitOverlays ==
    InitCacheOf(TreeCachePut(TreeCacheNew(MaxCapacity),
                             NodeKey(0, NibblePathEmpty), BaseNode))

\* What a get of the key returns to the thread t when no other overlay
\* exists: the node t put last, else the node t injected last, else the
\* node of the base.
WantedBy(t, key) ==
    IF key \in DOMAIN overlays[t].log.put
    THEN Some(overlays[t].log.put[key])
    ELSE IF key \in DOMAIN overlays[t].log.injected
    THEN Some(overlays[t].log.injected[key])
    ELSE IF MapHas(cache.cache_map, key) THEN Some(cache.cache_map[key])
    ELSE None

\* The thread t calls inject_node on its overlay.
ThreadOverlayInject(t, key, node) ==
    /\ nOps < MaxThreadCalls
    /\ threads[t].pc = "idle"
    /\ overlays' = [overlays EXCEPT
           ![OwnOverlay(t)].sc = inject_node(@, key, node),
           ![t].log.injected = Logged(@, key, node)]
    /\ nOps' = nOps + 1
    /\ UNCHANGED <<db, cache, adapterVars, spec_cache, roots, last, prev,
                   touched, path, nodeVars, overlay_log, threads, mutex,
                   serial>>

\* The thread t calls put on its overlay.
ThreadOverlayPut(t, key, node) ==
    /\ nOps < MaxThreadCalls
    /\ threads[t].pc = "idle"
    /\ overlays' = [overlays EXCEPT
           ![OwnOverlay(t)].sc = SpeculativePut(@, key, node),
           ![t].log.put = Logged(@, key, node)]
    /\ nOps' = nOps + 1
    /\ UNCHANGED <<db, cache, adapterVars, spec_cache, roots, last, prev,
                   touched, path, nodeVars, overlay_log, threads, mutex,
                   serial>>

\* The thread t calls clear on its overlay.
ThreadOverlayClear(t) ==
    /\ nOps < MaxThreadCalls
    /\ threads[t].pc = "idle"
    /\ overlays' = [overlays EXCEPT
           ![OwnOverlay(t)].sc = SpeculativeClear(@),
           ![t].log = OverlayLogEmpty]
    /\ nOps' = nOps + 1
    /\ UNCHANGED <<db, cache, adapterVars, spec_cache, roots, last, prev,
                   touched, path, nodeVars, overlay_log, threads, mutex,
                   serial>>

\* The thread t calls get on its overlay: the node of the overlay is
\* returned, or get of the base cache is called.
ThreadOverlayGet(t, key) ==
    /\ nOps < MaxThreadCalls
    /\ threads[t].pc = "idle"
    /\ \E r \in {OverlayLookup(overlays[OwnOverlay(t)].sc, key)} :
        threads' = [threads EXCEPT ![t] =
            [IdleThread EXCEPT !.pc = IF IsSome(r) THEN "idle" ELSE "lock",
                               !.op = "get", !.key = key, !.result = r,
                               !.expected = r, !.via = "overlay",
                               !.wanted = WantedBy(t, key)]]
    /\ nOps' = nOps + 1
    /\ UNCHANGED <<db, cache, adapterVars, spec_cache, roots, last, prev,
                   touched, path, nodeVars, overlay_log, mutex, serial,
                   overlays>>

NextOverlays ==
    \/ \E t \in Threads, key \in ThreadKeys :
           ThreadOverlayInject(t, key, InjectedNode)
    \/ \E t \in Threads, key \in ThreadKeys, node \in CacheNodes :
           ThreadOverlayPut(t, key, node)
    \/ \E t \in Threads : ThreadOverlayClear(t)
    \/ \E t \in Threads, key \in ThreadKeys : ThreadOverlayGet(t, key)
    \/ \E t \in Threads : ThreadLock(t)
    \/ \E t \in Threads : ThreadFind(t)
    \/ \E t \in Threads : ThreadUpdate(t)
    \/ \E t \in Threads : ThreadUnlock(t)

SpecOverlays == InitOverlays /\ [][NextOverlays]_vars

\* C33: when two threads each own a SpeculativeTreeCache over the same
\* base cache and run get, put, clear and inject_node in any interleaving,
\* every get on one overlay returns the node it would return if the other
\* overlay did not exist.
C33_OverlaysDoNotInterfere ==
    \A t \in Threads :
        threads[t].via = "overlay" /\ threads[t].pc = "idle" =>
            threads[t].result = threads[t].wanted

\* A get through an overlay returned the node of the base while the overlay
\* of the other thread holds another node, put for the same key.
C33_Witness ==
    \E t, u \in Threads :
        /\ t # u
        /\ threads[t].via = "overlay"
        /\ threads[t].pc = "idle"
        /\ threads[t].result = Some(BaseNode)
        /\ MapHas(overlays[u].sc.overlay, threads[t].key)
        /\ MapHas(overlays[u].sc.injected, threads[t].key)
        /\ ~MapHas(overlays[t].sc.overlay, threads[t].key)
====
